---------------------------- MODULE Spec2Model ----------------------------
(***************************************************************************)
(* A model of the recipe extraction / shopping list pipeline:              *)
(*   - RecipeParser (parsePDF, parseRecipe and the extractor chains),      *)
(*   - RecipeParser.organizeTextByLines (layout reconstruction),           *)
(*   - ShoppingListGenerator (parseIngredient, normalizeIngredientName,    *)
(*     convertToStandardUnit, consolidateIngredients, categorizeIngredient)*)
(*                                                                         *)
(* JavaScript strings are TLA+ strings; the regular expressions of the     *)
(* source are written out as scanners over the characters of a string.     *)
(* Numbers that are floats in the source are fixed-point integers here:    *)
(* an amount is held in hundredths, a conversion factor in hundredths, so  *)
(* a converted amount and a total are held in ten-thousandths.             *)
(***************************************************************************)
EXTENDS Integers, Sequences, FiniteSets, TLC

VARIABLES
    pShape, pText, pOut,            \* parseIngredient: the parts the argument was written from, argument, result
    cLog, ingredients, cStatus,     \* consolidateIngredients: lines seen, groups, status
    catName, catOut,                \* categorizeIngredient: argument, result
    textItems, lines, itemIdx, lOut,\* organizeTextByLines: input, buckets, position, result
    mVariant, mText, mOut,          \* extractMacros: which copy of the parser, argument, result
    doc, pageNum, recipes, pdfStatus, pageLog, uuids,  \* parsePDF: document, loop counter, local list, status, console, ids issued
    fetched, delivered,             \* parsePDF: text content awaited for the current page, what the caller receives
    eChain, eText, eOracle,         \* a strategy chain: which extractor of which copy, its argument, what each strategy gives when called
    eResults, eStatus, eOut,        \* a strategy chain: results of the strategies called so far, status, value returned
    sShape, sContent, sParts, sIdx, \* parseIngredientSection: the tokens the subsection was written from, argument, parts, loop counter
    sLastIndex, sTests, sCandidates,\* parseIngredientSection: lastIndex of measurementPattern, tests made, candidate strings formed
    sIngredients, sStatus,          \* parseIngredientSection: local list, status
    tInput, tCalls, tRecipes, tUuids,\* concurrent parsePDF calls: document of each call, its locals, the recipes lists, ids issued
    tParsed                         \* concurrent parsePDF calls: what parseRecipe returns for each page of each document

parseVars == <<pShape, pText, pOut>>
consVars  == <<cLog, ingredients, cStatus>>
catVars   == <<catName, catOut>>
layVars   == <<textItems, lines, itemIdx, lOut>>
macVars   == <<mVariant, mText, mOut>>
pdfVars   == <<doc, pageNum, recipes, pdfStatus, pageLog, uuids, fetched, delivered>>
chainVars == <<eChain, eText, eOracle, eResults, eStatus, eOut>>
secVars   == <<sShape, sContent, sParts, sIdx, sLastIndex, sTests, sCandidates, sIngredients, sStatus>>
twoVars   == <<tInput, tCalls, tRecipes, tUuids, tParsed>>
vars == <<pShape, pText, pOut, cLog, ingredients, cStatus, catName, catOut,
          textItems, lines, itemIdx, lOut, mVariant, mText, mOut,
          doc, pageNum, recipes, pdfStatus, pageLog, uuids, fetched, delivered,
          eChain, eText, eOracle, eResults, eStatus, eOut,
          sShape, sContent, sParts, sIdx, sLastIndex, sTests, sCandidates, sIngredients, sStatus,
          tInput, tCalls, tRecipes, tUuids, tParsed>>

None == "<none>"
\* an optional value: Nothing, or Some(v)
Nothing == <<>>
Some(v) == <<v>>

-----------------------------------------------------------------------------
(* Characters and the primitive pieces of the source's regular expressions *)

Min(S) == CHOOSE m \in S : \A n \in S : m <= n
Max(S) == CHOOSE m \in S : \A n \in S : m >= n

\* the character at position i of s, "" outside the string (String.prototype.charAt)
At(s, i) == IF i >= 1 /\ i <= Len(s) THEN SubSeq(s, i, i) ELSE ""

Digits == "0123456789"
Uppers == "ABCDEFGHIJKLMNOPQRSTUVWXYZ"
Lowers == "abcdefghijklmnopqrstuvwxyz"

CharsOf(alphabet) == { At(alphabet, i) : i \in 1..Len(alphabet) }

DigitChars == CharsOf(Digits)
UpperChars == CharsOf(Uppers)
LowerChars == CharsOf(Lowers)

DigitValue == [ c \in DigitChars |-> (CHOOSE i \in 1..10 : At(Digits, i) = c) - 1 ]
LowerOf    == [ c \in UpperChars |-> At(Lowers, CHOOSE i \in 1..26 : At(Uppers, i) = c) ]

\* \d
IsDigit(c) == c \in DigitChars
\* \s
IsSpace(c) == c \in {" ", "\t", "\n", "\r"}
\* \w
IsWordChar(c) == c \in LowerChars \/ c \in DigitChars \/ c \in UpperChars \/ c = "_"

LowerChar(c) == IF c \in UpperChars THEN LowerOf[c] ELSE c

RECURSIVE toLowerCase(_)
toLowerCase(s) == IF s = "" THEN "" ELSE LowerChar(At(s, 1)) \o toLowerCase(Tail(s))

\* the first position >= i of s that holds no digit (\d* from i, greedy)
RECURSIVE SkipDigits(_, _)
SkipDigits(s, i) ==
    IF i <= Len(s) /\ IsDigit(At(s, i)) THEN SkipDigits(s, i + 1) ELSE i

\* the first position >= i of s that holds no white space (\s* from i, greedy)
RECURSIVE SkipSpaces(_, _)
SkipSpaces(s, i) ==
    IF i <= Len(s) /\ IsSpace(At(s, i)) THEN SkipSpaces(s, i + 1) ELSE i

\* the literal lit (lower case) stands at position i of s, letter case ignored (/i)
LitAtI(s, i, lit) ==
    /\ i >= 1
    /\ i + Len(lit) - 1 <= Len(s)
    /\ \A k \in 1..Len(lit) : LowerChar(At(s, i + k - 1)) = At(lit, k)

\* the literal lit stands at position i of s, case-sensitive
LitAt(s, i, lit) ==
    /\ i >= 1
    /\ i + Len(lit) - 1 <= Len(s)
    /\ SubSeq(s, i, i + Len(lit) - 1) = lit

\* String.prototype.includes
includes(s, lit) == \E i \in 1..(Len(s) + 1) : LitAt(s, i, lit)

\* \b at the gap before position i of s
WordBoundary(s, i) ==
    LET before == i > 1 /\ i - 1 <= Len(s) /\ IsWordChar(At(s, i - 1))
        after  == i >= 1 /\ i <= Len(s) /\ IsWordChar(At(s, i))
    IN  before # after

\* String.prototype.trim
RECURSIVE trimEnd(_)
trimEnd(s) ==
    IF s # "" /\ IsSpace(At(s, Len(s))) THEN trimEnd(SubSeq(s, 1, Len(s) - 1)) ELSE s

trim(s) == trimEnd(SubSeq(s, SkipSpaces(s, 1), Len(s)))

\* \d+(?:\.\d+)? from position i: the position after the match, 0 when no match
NumberEnd(s, i) ==
    LET e1 == SkipDigits(s, i)
    IN  IF e1 = i THEN 0
        ELSE IF e1 <= Len(s) /\ At(s, e1) = "." /\ SkipDigits(s, e1 + 1) > e1 + 1
             THEN SkipDigits(s, e1 + 1)
             ELSE e1

\* \d+(?:\.\d+)?(?:\s*\/\s*\d+)? from position i: the position after the match, 0 when none
AmountEnd(s, i) ==
    LET e2 == NumberEnd(s, i)
        k  == SkipSpaces(s, e2)
        m  == SkipSpaces(s, k + 1)
    IN  IF e2 = 0 THEN 0
        ELSE IF k <= Len(s) /\ At(s, k) = "/" /\ SkipDigits(s, m) > m
             THEN SkipDigits(s, m)
             ELSE e2

-----------------------------------------------------------------------------
(* ShoppingListGenerator.parseIngredient                                   *)

\* cups?|tbsp|tablespoons?|tsp|teaspoons?|oz|ounces?|lbs?|pounds?|g|grams?|kg|
\* kilograms?|ml|milliliters?|l|liters?  in the order the regex engine tries
\* them (x? is greedy: the longer form first)
UnitAlternatives ==
    << "cups", "cup", "tbsp", "tablespoons", "tablespoon", "tsp", "teaspoons",
       "teaspoon", "oz", "ounces", "ounce", "lbs", "lb", "pounds", "pound", "g",
       "grams", "gram", "kg", "kilograms", "kilogram", "ml", "milliliters",
       "milliliter", "l", "liters", "liter" >>

\* cups?|tbsp|tsp|oz|lbs?|g|kg|ml|l  (the short list of the fallback name)
ShortUnitAlternatives ==
    << "cups", "cup", "tbsp", "tsp", "oz", "lbs", "lb", "g", "kg", "ml", "l" >>

\* index of the first alternative of alts, from the k-th on, that stands at
\* position i of s (and is followed by \b when bounded), 0 when none does
RECURSIVE FirstAltFrom(_, _, _, _, _)
FirstAltFrom(s, i, alts, bounded, k) ==
    IF k > Len(alts) THEN 0
    ELSE IF LitAtI(s, i, alts[k]) /\ (bounded => WordBoundary(s, i + Len(alts[k])))
         THEN k
         ELSE FirstAltFrom(s, i, alts, bounded, k + 1)

FirstAlt(s, i, alts, bounded) == FirstAltFrom(s, i, alts, bounded, 1)

\* /^(\d+(?:\.\d+)?(?:\s*\/\s*\d+)?)/  : group 1, '' when no match
amountOf(ingredientText) ==
    LET e == AmountEnd(ingredientText, 1)
    IN  IF e = 0 THEN "" ELSE SubSeq(ingredientText, 1, e - 1)

\* /\d+(?:\.\d+)?\s*(units)\b/i at start position i: the unit matched, None when none.
\* The unit must start right after the greedy number and white space: a shorter
\* number or white space leaves a digit, a '.' or a space where the unit must start.
UnitAtStart(s, i) ==
    LET e == NumberEnd(s, i)
        u == SkipSpaces(s, e)
        k == FirstAlt(s, u, UnitAlternatives, TRUE)
    IN  IF e = 0 \/ k = 0 THEN None ELSE UnitAlternatives[k]

\* the leftmost start position wins
RECURSIVE UnitFrom(_, _)
UnitFrom(s, i) ==
    IF i > Len(s) THEN ""
    ELSE IF IsDigit(At(s, i)) /\ UnitAtStart(s, i) # None
         THEN UnitAtStart(s, i)
         ELSE UnitFrom(s, i + 1)

unitOf(ingredientText) == UnitFrom(ingredientText, 1)

\* .replace(/^\d+(?:\.\d+)?(?:\s*\/\s*\d+)?\s*/, '')
RemoveAmount(s) ==
    LET e == AmountEnd(s, 1)
    IN  IF e = 0 THEN s ELSE SubSeq(s, SkipSpaces(s, e), Len(s))

\* .replace(/^(?:units)\s*/i, '')
RemoveUnit(s) ==
    LET k == FirstAlt(s, 1, UnitAlternatives, FALSE)
    IN  IF k = 0 THEN s
        ELSE SubSeq(s, SkipSpaces(s, 1 + Len(UnitAlternatives[k])), Len(s))

\* .replace(/^of\s+/i, '')
RemoveOf(s) ==
    IF LitAtI(s, 1, "of") /\ SkipSpaces(s, 3) > 3
    THEN SubSeq(s, SkipSpaces(s, 3), Len(s))
    ELSE s

\* .replace(/,.*$/, '') : from the first comma that no line break follows
RemoveCommaClause(s) ==
    LET hit(i) == /\ At(s, i) = ","
                  /\ \A j \in (i + 1)..Len(s) : At(s, j) \notin {"\n", "\r"}
    IN  IF \E i \in 1..Len(s) : hit(i)
        THEN SubSeq(s, 1, (CHOOSE i \in 1..Len(s) : hit(i) /\ \A j \in 1..(i - 1) : ~hit(j)) - 1)
        ELSE s

\* .replace(/^\d+(?:\.\d+)?\s*(?:cups?|tbsp|tsp|oz|lbs?|g|kg|ml|l)?\s*/i, '').trim()
FallbackName(s) ==
    LET e == NumberEnd(s, 1)
        u == SkipSpaces(s, e)
        k == FirstAlt(s, u, ShortUnitAlternatives, FALSE)
        v == IF k = 0 THEN u ELSE SkipSpaces(s, u + Len(ShortUnitAlternatives[k]))
    IN  IF e = 0 THEN trim(s) ELSE trim(SubSeq(s, v, Len(s)))

CleanName(ingredientText) ==
    trim(RemoveCommaClause(RemoveOf(RemoveUnit(RemoveAmount(ingredientText)))))

parseIngredient(ingredientText) ==
    LET name == CleanName(ingredientText)
    IN  [ amount |-> amountOf(ingredientText),
          unit   |-> unitOf(ingredientText),
          name   |-> IF Len(name) < 2 THEN FallbackName(ingredientText) ELSE name ]

-----------------------------------------------------------------------------
(* ShoppingListGenerator.normalizeIngredientName                           *)

EndsWith(s, suffix) ==
    Len(s) >= Len(suffix) /\ SubSeq(s, Len(s) - Len(suffix) + 1, Len(s)) = suffix

\* .replace(/suffix$/, '')
StripSuffix(s, suffix) ==
    IF EndsWith(s, suffix) THEN SubSeq(s, 1, Len(s) - Len(suffix)) ELSE s

\* .replace(/\s+/g, ' ')
RECURSIVE CollapseSpaces(_)
CollapseSpaces(s) ==
    IF s = "" THEN ""
    ELSE IF IsSpace(At(s, 1))
         THEN " " \o CollapseSpaces(SubSeq(s, SkipSpaces(s, 1), Len(s)))
         ELSE At(s, 1) \o CollapseSpaces(Tail(s))

normalizeIngredientName(name) ==
    trim(CollapseSpaces(StripSuffix(StripSuffix(StripSuffix(toLowerCase(name), "s"), "ed"), "ing")))

-----------------------------------------------------------------------------
(* ShoppingListGenerator.convertToStandardUnit                             *)

NaN == -1

Centi == 100

\* the value of a string of digits
RECURSIVE DecimalValue(_)
DecimalValue(s) ==
    IF s = "" THEN 0
    ELSE DecimalValue(SubSeq(s, 1, Len(s) - 1)) * 10 + DigitValue[At(s, Len(s))]

\* parseFloat on a string that is empty or starts with a digit (every amount
\* parseIngredient returns): the leading digits '.' digits, in hundredths; what
\* follows them (a fraction's '/2') is ignored, as parseFloat does.  Decimals
\* past the second are dropped by the fixed-point scale.
parseFloat(s) ==
    LET e1   == SkipDigits(s, 1)
        e2   == NumberEnd(s, 1)
        frac == SubSeq(s, e1 + 1, e2 - 1)
        f2   == SubSeq(frac \o "00", 1, 2)
    IN  IF e1 = 1 THEN NaN
        ELSE DecimalValue(SubSeq(s, 1, e1 - 1)) * Centi + DecimalValue(f2)

\* the conversions table, factors in hundredths
Grams == { "g", "gram", "grams", "kg", "kilogram", "kilograms", "oz", "ounce",
           "ounces", "lb", "lbs", "pound", "pounds" }
Millilitres == { "ml", "milliliter", "milliliters", "l", "liter", "liters", "cup",
                 "cups", "tbsp", "tablespoon", "tablespoons", "tsp", "teaspoon",
                 "teaspoons" }

conversions ==
    [ u \in Grams \cup Millilitres |->
        CASE u \in {"g", "gram", "grams"} -> 100
          [] u \in {"kg", "kilogram", "kilograms"} -> 100000
          [] u \in {"oz", "ounce", "ounces"} -> 2835
          [] u \in {"lb", "lbs", "pound", "pounds"} -> 45359
          [] u \in {"ml", "milliliter", "milliliters"} -> 100
          [] u \in {"l", "liter", "liters"} -> 100000
          [] u \in {"cup", "cups"} -> 24000
          [] u \in {"tbsp", "tablespoon", "tablespoons"} -> 1500
          [] u \in {"tsp", "teaspoon", "teaspoons"} -> 500 ]

\* in ten-thousandths; NaN stands for the null of the source
convertToStandardUnit(amount, unit) ==
    LET numAmount == parseFloat(amount)
        u         == toLowerCase(unit)
    IN  IF numAmount = NaN THEN NaN
        ELSE IF u \in DOMAIN conversions
             THEN numAmount * conversions[u]
             ELSE numAmount * Centi

-----------------------------------------------------------------------------
(* ShoppingListGenerator.consolidateIngredients                            *)

\* the lower-case keys every object inherits from Object.prototype: the
\* accumulator {} answers ingredients[key] for them without owning them
InheritedKeys == {"constructor", "__proto__"}

NewGroup(normalizedName, parsed) ==
    [ name          |-> normalizedName,
      displayName   |-> parsed.name,
      totalAmount   |-> 0,
      amounts       |-> <<>>,
      unit          |-> parsed.unit,
      recipes       |-> <<>>,
      originalTexts |-> <<>> ]

\* a faulty variant: the group is created anew for every line
EnsureGroup_Overwrite(groups, normalizedName, parsed) ==
    IF normalizedName \in InheritedKeys
    THEN groups
    ELSE [ k \in DOMAIN groups \cup {normalizedName} |->
             IF k = normalizedName THEN NewGroup(normalizedName, parsed) ELSE groups[k] ]

\* if (!ingredients[normalizedName]) { ingredients[normalizedName] = {...} }
EnsureGroup(groups, normalizedName, parsed) ==
    IF normalizedName \in DOMAIN groups \/ normalizedName \in InheritedKeys
    THEN groups
    ELSE [ k \in DOMAIN groups \cup {normalizedName} |->
             IF k = normalizedName THEN NewGroup(normalizedName, parsed) ELSE groups[k] ]

\* an addition that also relabels the group with the unit of the line added
AddAmount_Relabel(group, parsed, title) ==
    [ group EXCEPT !.unit = parsed.unit ]

\* if (parsed.amount && !isNaN(parseFloat(parsed.amount))) { ... }
AddAmount(group, parsed, title) ==
    LET convertedAmount == convertToStandardUnit(parsed.amount, parsed.unit)
    IN  IF parsed.amount # "" /\ parseFloat(parsed.amount) # NaN /\ convertedAmount # NaN
        THEN [ group EXCEPT
                 !.totalAmount = @ + convertedAmount,
                 !.amounts = Append(@, [ amount |-> parsed.amount,
                                         unit   |-> parsed.unit,
                                         recipe |-> title ]) ]
        ELSE group

\* one turn of the inner forEach: the groups after ingredientText of the recipe
\* titled title
AddLine(groups, title, ingredientText) ==
    LET parsed         == parseIngredient(ingredientText)
        normalizedName == normalizeIngredientName(parsed.name)
        created        == EnsureGroup(groups, normalizedName, parsed)
        summed         == AddAmount(created[normalizedName], parsed, title)
    IN  [ created EXCEPT
            ![normalizedName] =
                [ summed EXCEPT !.recipes = Append(@, title),
                                !.originalTexts = Append(@, ingredientText) ] ]

\* ingredients[normalizedName] is an inherited member, not a group: its
\* .amounts / .recipes are undefined and .push raises a TypeError
LineThrows(groups, ingredientText) ==
    LET normalizedName == normalizeIngredientName(parseIngredient(ingredientText).name)
    IN  normalizedName \notin DOMAIN groups /\ normalizedName \in InheritedKeys

-----------------------------------------------------------------------------
(* ShoppingListGenerator.categoryMappings and categorizeIngredient         *)

\* the rows of the object literal of the constructor, as written
CategoryListing ==
    << <<"chicken", "Meat & Poultry">>,
       <<"beef", "Meat & Poultry">>,
       <<"pork", "Meat & Poultry">>,
       <<"turkey", "Meat & Poultry">>,
       <<"fish", "Seafood">>,
       <<"salmon", "Seafood">>,
       <<"tuna", "Seafood">>,
       <<"shrimp", "Seafood">>,
       <<"eggs", "Dairy & Eggs">>,
       <<"milk", "Dairy & Eggs">>,
       <<"cheese", "Dairy & Eggs">>,
       <<"yogurt", "Dairy & Eggs">>,
       <<"butter", "Dairy & Eggs">>,
       <<"cream", "Dairy & Eggs">>,
       <<"onion", "Vegetables">>,
       <<"garlic", "Vegetables">>,
       <<"tomato", "Vegetables">>,
       <<"carrot", "Vegetables">>,
       <<"celery", "Vegetables">>,
       <<"pepper", "Vegetables">>,
       <<"broccoli", "Vegetables">>,
       <<"spinach", "Vegetables">>,
       <<"lettuce", "Vegetables">>,
       <<"cucumber", "Vegetables">>,
       <<"mushroom", "Vegetables">>,
       <<"apple", "Fruits">>,
       <<"banana", "Fruits">>,
       <<"orange", "Fruits">>,
       <<"lemon", "Fruits">>,
       <<"lime", "Fruits">>,
       <<"berry", "Fruits">>,
       <<"strawberry", "Fruits">>,
       <<"blueberry", "Fruits">>,
       <<"rice", "Grains & Starches">>,
       <<"pasta", "Grains & Starches">>,
       <<"bread", "Grains & Starches">>,
       <<"flour", "Grains & Starches">>,
       <<"oats", "Grains & Starches">>,
       <<"quinoa", "Grains & Starches">>,
       <<"potato", "Grains & Starches">>,
       <<"oil", "Pantry & Condiments">>,
       <<"vinegar", "Pantry & Condiments">>,
       <<"salt", "Pantry & Condiments">>,
       <<"pepper", "Pantry & Condiments">>,
       <<"sugar", "Pantry & Condiments">>,
       <<"honey", "Pantry & Condiments">>,
       <<"sauce", "Pantry & Condiments">>,
       <<"spice", "Pantry & Condiments">>,
       <<"herb", "Pantry & Condiments">>,
       <<"beans", "Canned & Packaged">>,
       <<"broth", "Canned & Packaged">>,
       <<"stock", "Canned & Packaged">>,
       <<"can", "Canned & Packaged">>,
       <<"jar", "Canned & Packaged">> >>

\* What an object literal with these rows evaluates to, as Object.entries
\* lists it: a key keeps the place of its first row and holds the value of
\* its last row.
ObjectEntries(rows) ==
    LET firsts   == { k \in 1..Len(rows) : \A j \in 1..(k - 1) : rows[j][1] # rows[k][1] }
        nth(i)   == CHOOSE k \in firsts : Cardinality({ j \in firsts : j <= k }) = i
        lastOf(k) == CHOOSE j \in k..Len(rows) :
                        /\ rows[j][1] = rows[k][1]
                        /\ \A m \in (j + 1)..Len(rows) : rows[m][1] # rows[k][1]
    IN  [ i \in 1..Cardinality(firsts) |-> << rows[nth(i)][1], rows[lastOf(nth(i))][2] >> ]

categoryMappings == ObjectEntries(CategoryListing)

\* for (const [keyword, category] of Object.entries(this.categoryMappings))
\*     if (lowerName.includes(keyword)) return category;
\* return 'Other';
categorizeIngredient(ingredientName) ==
    LET lowerName == toLowerCase(ingredientName)
        found     == { k \in 1..Len(categoryMappings) :
                         includes(lowerName, categoryMappings[k][1]) }
    IN  IF found = {} THEN "Other"
        ELSE categoryMappings[CHOOSE k \in found : \A j \in found : k <= j][2]

-----------------------------------------------------------------------------
(* RecipeParser.organizeTextByLines                                        *)

tolerance == 5

Abs(n) == IF n < 0 THEN -n ELSE n

\* the index of the first line within tolerance of y, 0 when there is none
RECURSIVE LineFor(_, _, _)
LineFor(ls, y, k) ==
    IF k > Len(ls) THEN 0
    ELSE IF Abs(ls[k].y - y) <= tolerance THEN k ELSE LineFor(ls, y, k + 1)

\* a grouping whose line takes the y of the fragment that joins it
PlaceItemIn_Moving(ls, item) ==
    LET k     == LineFor(ls, item.y, 1)
        entry == [text |-> item.str, x |-> item.x]
    IN  IF k > 0
        THEN [ ls EXCEPT ![k].items = Append(@, entry), ![k].y = item.y ]
        ELSE Append(ls, [y |-> item.y, items |-> <<entry>>])

\* the body of textItems.forEach
PlaceItemIn(ls, item) ==
    LET k     == LineFor(ls, item.y, 1)
        entry == [text |-> item.str, x |-> item.x]
    IN  IF k > 0
        THEN [ ls EXCEPT ![k].items = Append(@, entry) ]
        ELSE Append(ls, [y |-> item.y, items |-> <<entry>>])

\* Array.prototype.sort is stable: e goes behind the elements it does not
\* have to precede
RECURSIVE InsertLine(_, _)
InsertLine(sorted, e) ==
    IF sorted = <<>> THEN <<e>>
    ELSE IF sorted[1].y - e.y < 0
         THEN <<e>> \o sorted
         ELSE <<sorted[1]>> \o InsertLine(Tail(sorted), e)

\* a faulty variant: the lines are left in the order they were created
SortLines_Unsorted(ls) == ls

\* lines.sort((a, b) => b.y - a.y)
RECURSIVE SortLines(_)
SortLines(ls) ==
    IF ls = <<>> THEN <<>>
    ELSE InsertLine(SortLines(SubSeq(ls, 1, Len(ls) - 1)), ls[Len(ls)])

RECURSIVE InsertItem(_, _)
InsertItem(sorted, e) ==
    IF sorted = <<>> THEN <<e>>
    ELSE IF e.x - sorted[1].x < 0
         THEN <<e>> \o sorted
         ELSE <<sorted[1]>> \o InsertItem(Tail(sorted), e)

\* line.items.sort((a, b) => a.x - b.x)
RECURSIVE SortItems(_)
SortItems(items) ==
    IF items = <<>> THEN <<>>
    ELSE InsertItem(SortItems(SubSeq(items, 1, Len(items) - 1)), items[Len(items)])

\* line.items.map(item => item.text).join(' ')
RECURSIVE JoinTexts(_)
JoinTexts(items) ==
    IF items = <<>> THEN ""
    ELSE IF Len(items) = 1 THEN items[1].text
         ELSE items[1].text \o " " \o JoinTexts(Tail(items))

\* .filter(line => line.length > 0)
RECURSIVE NonEmpty(_)
NonEmpty(strs) ==
    IF strs = <<>> THEN <<>>
    ELSE IF Len(strs[1]) > 0 THEN <<strs[1]>> \o NonEmpty(Tail(strs))
         ELSE NonEmpty(Tail(strs))

SortedLines(ls) ==
    [ k \in 1..Len(ls) |-> [ SortLines(ls)[k] EXCEPT !.items = SortItems(@) ] ]

LineTexts(ls) == NonEmpty([ k \in 1..Len(ls) |-> trim(JoinTexts(ls[k].items)) ])

-----------------------------------------------------------------------------
(* RecipeParser.extractMacros.  The repository holds two copies of the      *)
(* parser whose pattern lists differ in order: services/recipeParser.js     *)
(* tries 'label before number' first, the copy with organizeTextByLines     *)
(* tries 'number before label' first.                                       *)

Live    == "recipeParser.js"
Cookbook == "part_000"
Variants == {Live, Cookbook}
\* the older copy of the parser, with one pattern per macro in this.patterns
Older == "part_001"

\* [:\s]* from position i, greedy
RECURSIVE SkipColonsSpaces(_, _)
SkipColonsSpaces(s, i) ==
    IF i <= Len(s) /\ (IsSpace(At(s, i)) \/ At(s, i) = ":")
    THEN SkipColonsSpaces(s, i + 1) ELSE i

LabelFirst(labels)     == [kind |-> "label", labels |-> labels, gram |-> FALSE]
NumberFirst(labels, g) == [kind |-> "number", labels |-> labels, gram |-> g]
LabelGram(labels)      == [kind |-> "labelgram", labels |-> labels, gram |-> TRUE]

MacroNames == <<"calories", "protein", "carbs", "fat", "fiber">>

\* const macroPatterns = {...}: per macro the patterns in the order tried; an
\* alternation is listed in the order the regex engine tries it
macroPatterns(variant) ==
    LET calLabel == LabelFirst(<<"calories", "calorie", "kcal">>)
        proLabel == LabelFirst(<<"protein">>)
        carLabel == LabelFirst(<<"carbs", "carb", "carbohydrates", "carbohydrate", "carb">>)
        fatLabel == LabelFirst(<<"fat", "fats", "fat">>)
        fibLabel == LabelFirst(<<"fiber">>)
    IN  IF variant = Live
        THEN [ calories |-> << calLabel,
                               NumberFirst(<<"calories", "calorie", "kcal">>, FALSE),
                               LabelFirst(<<"cal">>) >>,
               protein  |-> << proLabel, NumberFirst(<<"protein">>, TRUE),
                               LabelFirst(<<"prot">>) >>,
               carbs    |-> << carLabel,
                               NumberFirst(<<"carbs", "carb", "carbohydrates", "carbohydrate">>, TRUE),
                               LabelFirst(<<"cho">>) >>,
               fat      |-> << fatLabel, NumberFirst(<<"fat", "fats", "fat">>, TRUE),
                               LabelFirst(<<"lipid">>) >>,
               fiber    |-> << fibLabel, NumberFirst(<<"fiber">>, TRUE),
                               LabelFirst(<<"fibre">>) >> ]
        ELSE IF variant = Older
        THEN [ calories |-> << calLabel >>,
               protein  |-> << LabelGram(<<"protein">>) >>,
               carbs    |-> << LabelGram(<<"carbs", "carb", "carbohydrates", "carbohydrate">>) >>,
               fat      |-> << LabelGram(<<"fat">>) >>,
               fiber    |-> << LabelGram(<<"fiber">>) >> ]
        ELSE [ calories |-> << NumberFirst(<<"calories", "calorie">>, FALSE),
                               calLabel,
                               LabelFirst(<<"cal">>) >>,
               protein  |-> << NumberFirst(<<"protein">>, TRUE), proLabel,
                               LabelFirst(<<"prot">>) >>,
               carbs    |-> << NumberFirst(<<"carbs", "carb">>, TRUE), carLabel,
                               LabelFirst(<<"cho">>) >>,
               fat      |-> << NumberFirst(<<"fat">>, TRUE), fatLabel,
                               LabelFirst(<<"lipid">>) >>,
               fiber    |-> << NumberFirst(<<"fiber">>, TRUE), fibLabel,
                               LabelFirst(<<"fibre">>) >> ]

\* label[:\s]*(\d+(?:\.\d+)?) with the label at position i: the captured
\* number, None when the pattern does not match there.  The alternatives are
\* tried in order; each is followed by the greedy [:\s]* and must then meet a digit.
RECURSIVE LabelThenNumber(_, _, _, _)
LabelThenNumber(s, i, labels, k) ==
    IF k > Len(labels) THEN None
    ELSE LET d == SkipColonsSpaces(s, i + Len(labels[k]))
         IN  IF LitAtI(s, i, labels[k]) /\ NumberEnd(s, d) > 0
             THEN SubSeq(s, d, NumberEnd(s, d) - 1)
             ELSE LabelThenNumber(s, i, labels, k + 1)

\* (\d+(?:\.\d+)?)\s*g?\s*label with the number at position i: the captured
\* number, None when the pattern does not match there.  The number and the
\* white space are greedy and a shorter match of either cannot be followed by
\* a label; the optional g is tried taken, then left out.
NumberThenLabel(s, i, labels, gram) ==
    LET e        == NumberEnd(s, i)
        j        == SkipSpaces(s, e)
        afterG   == SkipSpaces(s, j + 1)
        label(p) == \E k \in 1..Len(labels) : LitAtI(s, p, labels[k])
    IN  IF e = 0 THEN None
        ELSE IF gram /\ LitAtI(s, j, "g") /\ label(afterG) THEN SubSeq(s, i, e - 1)
        ELSE IF label(j) THEN SubSeq(s, i, e - 1)
        ELSE None

\* label[:\s]*(\d+(?:\.\d+)?)\s*g with the label at position i: the captured
\* number, None when the pattern does not match there.  A shorter number is
\* followed by a digit or a '.', never by the g.
RECURSIVE LabelNumberGram(_, _, _, _)
LabelNumberGram(s, i, labels, k) ==
    IF k > Len(labels) THEN None
    ELSE LET d == SkipColonsSpaces(s, i + Len(labels[k]))
             e == NumberEnd(s, d)
         IN  IF LitAtI(s, i, labels[k]) /\ e > 0 /\ LitAtI(s, SkipSpaces(s, e), "g")
             THEN SubSeq(s, d, e - 1)
             ELSE LabelNumberGram(s, i, labels, k + 1)

MatchAt(s, i, pattern) ==
    IF pattern.kind = "label"
    THEN LabelThenNumber(s, i, pattern.labels, 1)
    ELSE IF pattern.kind = "labelgram"
    THEN LabelNumberGram(s, i, pattern.labels, 1)
    ELSE NumberThenLabel(s, i, pattern.labels, pattern.gram)

\* a match anchored at the start of the text
match_Anchored(s, pattern) == MatchAt(s, 1, pattern)

\* text.match(pattern): group 1 of the leftmost match, None when there is none
match(s, pattern) ==
    LET starts == { i \in 1..Len(s) : MatchAt(s, i, pattern) # None }
    IN  IF starts = {} THEN None ELSE MatchAt(s, Min(starts), pattern)

\* for (const pattern of patterns) { ... break; }: group 1 of the match of
\* the first pattern that matches, None when none does
RECURSIVE FirstCapture(_, _, _)
FirstCapture(text, patterns, k) ==
    IF k > Len(patterns) THEN None
    ELSE LET captured == match(text, patterns[k])
         IN  IF captured # None THEN captured
             ELSE FirstCapture(text, patterns, k + 1)

\* a macros object that holds every macro, 0 for one that was not found
extractMacros_Defaults(text, variant) ==
    [ m \in { MacroNames[k] : k \in 1..Len(MacroNames) } |-> 0 ]

\* the macros object: a key only for a macro one of whose patterns matched,
\* its value parseFloat(match[1]) in hundredths
extractMacros(text, variant) ==
    LET table    == macroPatterns(variant)
        names    == { MacroNames[k] : k \in 1..Len(MacroNames) }
        captures == [ m \in names |-> FirstCapture(text, table[m], 1) ]
    IN  [ m \in { n \in names : captures[n] # None } |-> parseFloat(captures[m]) ]

-----------------------------------------------------------------------------
(* RecipeParser (services/recipeParser.js): the helpers its extractors share *)

\* s.toLowerCase().includes(lit), lit in lower case
includesI(s, lit) == \E i \in 1..Len(s) : LitAtI(s, i, lit)

\* some literal of lits stands at position p of s, letter case ignored
AnyLitAtI(s, p, lits) == \E k \in 1..Len(lits) : LitAtI(s, p, lits[k])

\* the leftmost position >= i where an alternation of literals matches, 0 when none
FirstOfI(s, i, lits) ==
    LET hits == { p \in i..Len(s) : AnyLitAtI(s, p, lits) }
    IN  IF hits = {} THEN 0 ELSE Min(hits)

\* the position after the alternation matched at p: the first alternative
\* in the order listed that stands there
AltEnd(s, p, lits) ==
    p + Len(lits[Min({ k \in 1..Len(lits) : LitAtI(s, p, lits[k]) })])

\* (?:ingredients?|ingredient list)
IngredientWords == << "ingredients", "ingredient", "ingredient list" >>
\* (?:directions?|instructions?|method|preparation)
DirectionWords  == << "directions", "direction", "instructions", "instruction",
                      "method", "preparation" >>
\* (?:directions?|instructions?|method)
DirectionHeads  == << "directions", "direction", "instructions", "instruction", "method" >>

\* $ under the m flag: the first position >= i that is the end of the text
\* or holds a line terminator
LineEnd(s, i) ==
    Min({ q \in i..(Len(s) + 1) : q = Len(s) + 1 \/ At(s, q) \in {"\n", "\r"} })

\* \w* from position i, greedy
RECURSIVE SkipWordChars(_, _)
SkipWordChars(s, i) ==
    IF i <= Len(s) /\ IsWordChar(At(s, i)) THEN SkipWordChars(s, i + 1) ELSE i

\* the separators of the parser's split calls: the position after the
\* separator matched at position j of s, 0 when none matches there
LineSeparator == "/[\\n\\r]|(?:\\s{3,})/"
NewLine       == "\\n"
StepSeparator == "/(?:\\d+\\.\\s*|\\n\\s*\\n)/"

SeparatorEnd(sep, s, j) ==
    CASE sep = LineSeparator ->
            IF At(s, j) \in {"\n", "\r"} THEN j + 1
            ELSE IF SkipSpaces(s, j) >= j + 3 THEN SkipSpaces(s, j)
            ELSE 0
      [] sep = NewLine ->
            IF At(s, j) = "\n" THEN j + 1 ELSE 0
      [] sep = StepSeparator ->
            LET dot      == SkipDigits(s, j)
                newlines == { m \in (j + 1)..(SkipSpaces(s, j + 1) - 1) : At(s, m) = "\n" }
            IN  IF dot > j /\ dot <= Len(s) /\ At(s, dot) = "."
                THEN SkipSpaces(s, dot + 1)
                ELSE IF At(s, j) = "\n" /\ newlines # {}
                THEN Max(newlines) + 1
                ELSE 0

\* String.prototype.split with one of these separators
RECURSIVE split(_, _)
split(s, sep) ==
    LET starts == { j \in 1..Len(s) : SeparatorEnd(sep, s, j) > 0 }
        first  == Min(starts)
    IN  IF starts = {} THEN << s >>
        ELSE << SubSeq(s, 1, first - 1) >>
             \o split(SubSeq(s, SeparatorEnd(sep, s, first), Len(s)), sep)

\* s.split(/\s+/).length
WordCount(s) ==
    Cardinality({ i \in 1..Len(s) :
                    IsSpace(At(s, i)) /\ (i = 1 \/ ~IsSpace(At(s, i - 1))) }) + 1

\* s.split(c).length for a one-character separator c
PieceCount(s, c) == Cardinality({ i \in 1..Len(s) : At(s, i) = c }) + 1

\* .replace(/\s+/g, ' ') of the page text and words.join(' ') of a trimmed
\* text's words: every run of white space becomes one blank
RECURSIVE SkipNonSpaces(_, _)
SkipNonSpaces(s, i) ==
    IF i <= Len(s) /\ ~IsSpace(At(s, i)) THEN SkipNonSpaces(s, i + 1) ELSE i

\* a page text whose white space is left as the text layer gives it
NormalizeWhitespace_Keep(s) == s

RECURSIVE NormalizeWhitespace(_)
NormalizeWhitespace(s) ==
    LET space == SkipNonSpaces(s, 1)
    IN  IF space > Len(s) THEN s
        ELSE SubSeq(s, 1, space - 1) \o " "
             \o NormalizeWhitespace(SubSeq(s, SkipSpaces(s, space), Len(s)))

-----------------------------------------------------------------------------
(* RecipeParser.extractTitle                                                 *)

TitleStopWords == << "calories", "protein", "ingredients", "directions", "instructions" >>

\* the condition of the loop over the lines
TitleLine(cleanLine) ==
    /\ cleanLine # ""
    /\ \A k \in 1..Len(TitleStopWords) : ~includesI(cleanLine, TitleStopWords[k])
    /\ Len(cleanLine) > 2
    /\ Len(cleanLine) < 100
    /\ ~IsDigit(At(cleanLine, 1))

\* text.split(/ingredients?|ingredient list/i)[0]
BeforeIngredients(text) ==
    LET p == FirstOfI(text, 1, IngredientWords)
    IN  IF p = 0 THEN text ELSE SubSeq(text, 1, p - 1)

FallbackTitle(text) ==
    LET beforeIngredients == BeforeIngredients(text)
        words             == trim(beforeIngredients)
    IN  IF /\ beforeIngredients # ""
           /\ Len(beforeIngredients) < 200
           /\ WordCount(words) > 1
           /\ WordCount(words) < 20
        THEN trim(NormalizeWhitespace(words))
        ELSE None

\* the first line that passes, else the fallback, else null
extractTitle(text) ==
    LET textLines == split(text, LineSeparator)
        passes    == { k \in 1..Len(textLines) : TitleLine(trim(textLines[k])) }
    IN  IF passes # {} THEN trim(textLines[Min(passes)]) ELSE FallbackTitle(text)

-----------------------------------------------------------------------------
(* RecipeParser: the line classifiers                                        *)

\* (?:cup|cups|tbsp|tablespoons?|tsp|teaspoons?|oz|ounces?|lb|lbs|pounds?|g|grams?|kg|ml|liters?|l)
MeasureWords ==
    << "cup", "cups", "tbsp", "tablespoons", "tablespoon", "tsp", "teaspoons",
       "teaspoon", "oz", "ounces", "ounce", "lb", "lbs", "pounds", "pound", "g",
       "grams", "gram", "kg", "ml", "liters", "liter", "l" >>

CommonIngredients ==
    << "chicken", "beef", "pork", "fish", "rice", "pasta", "onion", "garlic", "oil",
       "butter", "salt", "pepper", "sugar", "flour", "egg", "milk", "cheese",
       "tomato", "potato", "carrot", "broccoli", "spinach", "lettuce", "bread",
       "water", "juice", "wine", "stock", "broth" >>

DirectionVerbs == << "heat", "cook", "bake", "mix", "stir", "add", "place", "remove" >>

MacroWords == << "calories", "calorie", "protein", "carbs", "carb", "fat", "fiber" >>

\* /\b(?:w1|w2|...)\b/i.test(line)
HasWord(line, words) ==
    \E i \in 1..Len(line) :
        /\ WordBoundary(line, i)
        /\ \E k \in 1..Len(words) :
              /\ LitAtI(line, i, words[k])
              /\ WordBoundary(line, i + Len(words[k]))

\* /\d+\s*(?:cup|...|l)\b/i.test(line)
ContainsMeasurement(line) ==
    \E i \in 1..Len(line) :
        /\ IsDigit(At(line, i))
        /\ LET unit == SkipSpaces(line, SkipDigits(line, i))
           IN  \E k \in 1..Len(MeasureWords) :
                   /\ LitAtI(line, unit, MeasureWords[k])
                   /\ WordBoundary(line, unit + Len(MeasureWords[k]))

\* ingredientPatterns.some(pattern => pattern.test(line)); the bullet of
\* /^•/ lies outside the alphabet of the model's texts
IngredientPattern(line) ==
    \/ IsDigit(At(line, 1))                                       \* /^\d+/
    \/ ContainsMeasurement(line)
    \/ At(line, 1) = "*"                                          \* /^\*/
    \/ At(line, 1) = "-"                                          \* /^-/
    \/ /\ SkipDigits(line, 1) > 1                                 \* /^\d+\./
       /\ At(line, SkipDigits(line, 1)) = "."
    \/ /\ SkipWordChars(line, 1) > 1                              \* /^\w+:/
       /\ At(line, SkipWordChars(line, 1)) = ":"

looksLikeIngredient(line) ==
    IF line = "" \/ Len(line) < 3 THEN FALSE
    ELSE IF IngredientPattern(line) THEN TRUE
    ELSE IF HasWord(line, CommonIngredients) /\ WordCount(line) < 15 THEN TRUE
    ELSE LET isReasonableLength == Len(line) >= 5 /\ Len(line) < 150
             hasSpaces          == includes(line, " ")
             notTooManyWords    == WordCount(line) < 20
             noColons           == ~includes(line, ":") \/ PieceCount(line, ":") = 2
         IN  isReasonableLength /\ hasSpaces /\ notTooManyWords /\ noColons

\* .replace(/^[-*•]\s*/, '').replace(/^\d+\.\s*/, '').trim()
cleanIngredient(ingredient) ==
    LET unbulleted == IF At(ingredient, 1) \in {"-", "*"}
                      THEN SubSeq(ingredient, SkipSpaces(ingredient, 2), Len(ingredient))
                      ELSE ingredient
        dot        == SkipDigits(unbulleted, 1)
        unnumbered == IF dot > 1 /\ At(unbulleted, dot) = "."
                      THEN SubSeq(unbulleted, SkipSpaces(unbulleted, dot + 1), Len(unbulleted))
                      ELSE unbulleted
    IN  trim(unnumbered)

looksLikeTitle(line) ==
    /\ Len(line) < 100
    /\ (~includes(line, " ")) = FALSE
    /\ \A i \in 1..Len(line) : ~IsDigit(At(line, i))
    /\ PieceCount(line, " ") < 10

\* /(?:calories?|protein|carbs?|fat|fiber)[:\s]*\d+/i.test(line)
looksLikeMacro(line) ==
    \E i \in 1..Len(line) : \E k \in 1..Len(MacroWords) :
        /\ LitAtI(line, i, MacroWords[k])
        /\ LET digit == SkipColonsSpaces(line, i + Len(MacroWords[k]))
           IN  digit <= Len(line) /\ IsDigit(At(line, digit))

looksLikeDirection(line) ==
    \/ /\ SkipDigits(line, 1) > 1                                 \* /^(?:\d+\.|\d+\))\s/
       /\ At(line, SkipDigits(line, 1)) \in {".", ")"}
       /\ SkipDigits(line, 1) + 1 <= Len(line)
       /\ IsSpace(At(line, SkipDigits(line, 1) + 1))
    \/ HasWord(line, DirectionVerbs)

\* the elements of seq with the given indices, in order
AtIndices(seq, keep) ==
    LET Kept(k) == k \in keep
        indices == SelectSeq([ k \in 1..Len(seq) |-> k ], Kept)
    IN  [ k \in 1..Len(indices) |-> seq[indices[k]] ]

TrimAll(strs) == [ k \in 1..Len(strs) |-> trim(strs[k]) ]

-----------------------------------------------------------------------------
(* RecipeParser.extractIngredients and its strategies                        *)

parseIngredientText(ingredientText) ==
    LET cleanLines == TrimAll(split(ingredientText, LineSeparator))
        kept       == AtIndices(cleanLines,
                         { k \in 1..Len(cleanLines) :
                             Len(cleanLines[k]) > 2 /\ looksLikeIngredient(cleanLines[k]) })
    IN  [ k \in 1..Len(kept) |-> cleanIngredient(kept[k]) ]

\* the loop of extractIngredientsFallback from line k on
RECURSIVE FallbackIngredientsFrom(_, _, _)
FallbackIngredientsFrom(cleanLines, k, inIngredientsSection) ==
    IF k > Len(cleanLines) THEN << >>
    ELSE IF LitAtI(cleanLines[k], 1, "ingredient")
    THEN FallbackIngredientsFrom(cleanLines, k + 1, TRUE)
    ELSE IF AnyLitAtI(cleanLines[k], 1, DirectionHeads)
    THEN FallbackIngredientsFrom(cleanLines, k + 1, FALSE)
    ELSE IF inIngredientsSection /\ looksLikeIngredient(cleanLines[k])
    THEN << cleanIngredient(cleanLines[k]) >>
         \o FallbackIngredientsFrom(cleanLines, k + 1, inIngredientsSection)
    ELSE FallbackIngredientsFrom(cleanLines, k + 1, inIngredientsSection)

extractIngredientsFallback(text) ==
    FallbackIngredientsFrom(TrimAll(split(text, NewLine)), 1, FALSE)

\* strategy 1: the text between the first 'ingredient' heading and the next
\* directions heading or line end; << >> also stands for the strategy's null
SectionIngredients(text) ==
    LET heading == FirstOfI(text, 1, IngredientWords)
        start   == SkipColonsSpaces(text, AltEnd(text, heading, IngredientWords))
        stops   == { q \in start..(Len(text) + 1) :
                       \/ q = LineEnd(text, start)
                       \/ AnyLitAtI(text, q, DirectionWords) }
    IN  IF heading = 0 THEN << >>
        ELSE parseIngredientText(SubSeq(text, start, Min(stops) - 1))

\* the first strategy with a non-empty result, else []
extractIngredients(text) ==
    LET section  == SectionIngredients(text)
        fallback == extractIngredientsFallback(text)
    IN  IF section # << >> THEN section
        ELSE IF fallback # << >> THEN fallback
        ELSE << >>

extractIngredientsAlternative(text) ==
    LET cleanLines == TrimAll(split(text, LineSeparator))
        kept       == AtIndices(cleanLines,
                         { k \in 1..Len(cleanLines) :
                             /\ ~(cleanLines[k] = "" \/ Len(cleanLines[k]) < 3)
                             /\ ~( \/ looksLikeTitle(cleanLines[k])
                                   \/ looksLikeMacro(cleanLines[k])
                                   \/ looksLikeDirection(cleanLines[k]) )
                             /\ looksLikeIngredient(cleanLines[k]) })
    IN  [ k \in 1..Len(kept) |-> cleanIngredient(kept[k]) ]

-----------------------------------------------------------------------------
(* RecipeParser.extractDirections and its strategies                         *)

\* a numbering that keeps the index of the array
NumberStep_ZeroBased(step, index) == ToString(index) \o ". " \o step

\* `${index + 1}. ${step}` unless the step starts with /^\d+\./
NumberStep(step, index) ==
    IF SkipDigits(step, 1) > 1 /\ At(step, SkipDigits(step, 1)) = "."
    THEN step
    ELSE ToString(index + 1) \o ". " \o step

parseDirectionText(directionText) ==
    LET steps == TrimAll(split(directionText, StepSeparator))
        kept  == AtIndices(steps,
                    { k \in 1..Len(steps) : Len(steps[k]) > 10 /\ ~looksLikeMacro(steps[k]) })
    IN  [ k \in 1..Len(kept) |-> NumberStep(kept[k], k - 1) ]

\* the loop of extractDirectionsFallback from line k on: the steps pushed,
\* the last of them the step still open when the lines end
RECURSIVE FallbackDirectionsFrom(_, _, _, _)
FallbackDirectionsFrom(cleanLines, k, inDirectionsSection, currentStep) ==
    IF k > Len(cleanLines)
    THEN IF currentStep # "" THEN << currentStep >> ELSE << >>
    ELSE IF AnyLitAtI(cleanLines[k], 1, DirectionHeads)
    THEN FallbackDirectionsFrom(cleanLines, k + 1, TRUE, currentStep)
    ELSE IF inDirectionsSection /\ Len(cleanLines[k]) > 0
    THEN IF Len(cleanLines[k]) > 20
         THEN (IF currentStep # "" THEN << currentStep >> ELSE << >>)
              \o FallbackDirectionsFrom(cleanLines, k + 1, inDirectionsSection, cleanLines[k])
         ELSE FallbackDirectionsFrom(cleanLines, k + 1, inDirectionsSection,
                                     currentStep \o " " \o cleanLines[k])
    ELSE FallbackDirectionsFrom(cleanLines, k + 1, inDirectionsSection, currentStep)

extractDirectionsFallback(text) ==
    LET directions == FallbackDirectionsFrom(TrimAll(split(text, NewLine)), 1, FALSE, "")
    IN  [ k \in 1..Len(directions) |-> ToString(k) \o ". " \o directions[k] ]

\* the steps of the text that follows the first directions heading at or
\* after position from, up to the end of that line; << >> also stands for null
SectionDirections(text, from) ==
    LET heading == FirstOfI(text, from, DirectionWords)
        start   == SkipColonsSpaces(text, AltEnd(text, heading, DirectionWords))
    IN  IF heading = 0 THEN << >>
        ELSE parseDirectionText(SubSeq(text, start, LineEnd(text, start) - 1))

\* strategy 2: the directions heading is looked for after the first 'ingredient'
DirectionsAfterIngredients(text) ==
    LET ingredient == FirstOfI(text, 1, << "ingredients", "ingredient" >>)
    IN  IF ingredient = 0 THEN << >>
        ELSE SectionDirections(text, AltEnd(text, ingredient, << "ingredients", "ingredient" >>))

extractDirections(text) ==
    LET section  == SectionDirections(text, 1)
        after    == DirectionsAfterIngredients(text)
        fallback == extractDirectionsFallback(text)
    IN  IF section # << >> THEN section
        ELSE IF after # << >> THEN after
        ELSE IF fallback # << >> THEN fallback
        ELSE << >>

-----------------------------------------------------------------------------
(* RecipeParser.parseRecipe                                                  *)

\* the recipe object literal; id stands for the value uuidv4() returns
ExtractAll(pageText, pageNumber, id) ==
    [ id           |-> id,
      pageNumber   |-> pageNumber,
      title        |-> extractTitle(pageText),
      macros       |-> extractMacros(pageText, Live),
      ingredients  |-> extractIngredients(pageText),
      directions   |-> extractDirections(pageText),
      originalText |-> trim(pageText) ]

\* !recipe.title
NoTitle(recipe) == recipe.title = None \/ recipe.title = ""

\* a validation that asks for a title and for ingredients
NoTitleOrIngredients_Either(recipe) == NoTitle(recipe) \/ Len(recipe.ingredients) = 0

\* !recipe.title && recipe.ingredients.length === 0
NoTitleOrIngredients(recipe) == NoTitle(recipe) /\ Len(recipe.ingredients) = 0

\* if (!recipe.title) recipe.title = `Recipe from Page ${pageNumber}`
BackfillTitle(recipe, pageNumber) ==
    IF NoTitle(recipe)
    THEN [ recipe EXCEPT !.title = "Recipe from Page " \o ToString(pageNumber) ]
    ELSE recipe

\* if (recipe.ingredients.length === 0 && pageText.length > 100) ...
AlternativePass(recipe, pageText) ==
    IF Len(recipe.ingredients) = 0 /\ Len(pageText) > 100
    THEN [ recipe EXCEPT !.ingredients = extractIngredientsAlternative(pageText) ]
    ELSE recipe

\* a try block that runs the alternative pass before the validation
TryBlock_AlternativeFirst(pageText, pageNumber, id) ==
    LET recipe == AlternativePass(ExtractAll(pageText, pageNumber, id), pageText)
    IN  IF NoTitleOrIngredients(recipe) THEN Nothing
        ELSE Some(BackfillTitle(recipe, pageNumber))

\* the try block: Nothing for the null it returns at the validation
TryBlock(pageText, pageNumber, id) ==
    LET recipe == ExtractAll(pageText, pageNumber, id)
    IN  IF NoTitleOrIngredients(recipe) THEN Nothing
        ELSE Some(AlternativePass(BackfillTitle(recipe, pageNumber), pageText))

\* a parseRecipe whose extractors' errors go unnoticed
parseRecipe_Uncaught(pageText, pageNumber, id, threw) ==
    TryBlock(pageText, pageNumber, id)

\* try { ... } catch (error) { return null }: threw says that a call of the
\* try block raised an error
parseRecipe(pageText, pageNumber, id, threw) ==
    IF threw THEN Nothing ELSE TryBlock(pageText, pageNumber, id)

-----------------------------------------------------------------------------
(* RecipeParser.parsePDF: the page text                                      *)

\* textContent.items.map(item => item.str).join(' ')
RECURSIVE JoinStrs(_)
JoinStrs(items) ==
    IF items = << >> THEN ""
    ELSE IF Len(items) = 1 THEN items[1].str
         ELSE items[1].str \o " " \o JoinStrs(Tail(items))

\* ... .replace(/\s+/g, ' ').trim()
PageText(items) == trim(NormalizeWhitespace(JoinStrs(items)))

-----------------------------------------------------------------------------
(* Idle values: a specification that exercises one component leaves the     *)
(* variables of the other components at these values.                       *)

IdleParse == pShape = Nothing /\ pText = "" /\ pOut = Nothing
IdleCons  == cLog = <<>> /\ ingredients = <<>> /\ cStatus = "idle"
IdleCat   == catName = "" /\ catOut = None
IdleLay   == textItems = <<>> /\ lines = <<>> /\ itemIdx = 0 /\ lOut = Nothing
IdleMac   == mVariant = None /\ mText = "" /\ mOut = Nothing
IdlePdf   == doc = <<>> /\ pageNum = 0 /\ recipes = <<>> /\ pdfStatus = "idle" /\ pageLog = <<>> /\ uuids = 0
             /\ fetched = Nothing /\ delivered = Nothing
IdleChain == eChain = None /\ eText = "" /\ eOracle = <<>> /\ eResults = <<>>
             /\ eStatus = "idle" /\ eOut = Nothing
IdleSec   == sShape = <<>> /\ sContent = "" /\ sParts = <<>> /\ sIdx = 0 /\ sLastIndex = 0
             /\ sTests = <<>> /\ sCandidates = <<>> /\ sIngredients = <<>> /\ sStatus = "idle"
IdleTwo   == tInput = <<>> /\ tCalls = <<>> /\ tRecipes = <<>> /\ tUuids = 0 /\ tParsed = <<>>

-----------------------------------------------------------------------------
(* Specification SpecParse: parseIngredient applied to one ingredient line  *)

ParseAmounts == {"", "2", "10", "1.5", "1/2"}
ParseUnits   == {""} \cup {UnitAlternatives[k] : k \in 1..Len(UnitAlternatives)} \cup {"Cups", "TBSP"}
ParseOfs     == {"", "of "}
ParseNames   == {"flour", "garlic cloves", "lemons", "large eggs", "Olive Oil", "x"}
ParseClauses == {"", ", sifted"}

\* '<amount> <unit> [of ]<name>[, <clause>]'
RenderLine(a, u, o, n, c) ==
    a \o (IF a = "" THEN "" ELSE " ") \o u \o (IF u = "" THEN "" ELSE " ") \o o \o n \o c

ParseShapes ==
    [ amount : ParseAmounts, unit : ParseUnits, of : ParseOfs,
      name : ParseNames, clause : ParseClauses ]

InitParse ==
    /\ \E sh \in ParseShapes :
          /\ pShape = Some(sh)
          /\ pText = RenderLine(sh.amount, sh.unit, sh.of, sh.name, sh.clause)
    /\ pOut = Nothing
    /\ IdleCons /\ IdleCat /\ IdleLay /\ IdleMac /\ IdlePdf /\ IdleChain /\ IdleSec /\ IdleTwo

CallParseIngredient ==
    /\ pOut = Nothing
    /\ pOut' = Some(parseIngredient(pText))
    /\ UNCHANGED <<pShape, pText, consVars, catVars, layVars, macVars, pdfVars, chainVars, secVars, twoVars>>

NextParse == CallParseIngredient

SpecParse == InitParse /\ [][NextParse]_vars

\* C4: for a line '<integer or decimal> <unit> [of ]<name>[, <clause>]' whose
\* unit is any token of the recognised vocabulary, parseIngredient returns the
\* leading number as amount, the lowercased unit token as unit and exactly
\* <name> as name.  (Stated for names of two or more characters, which the
\* short-name fallback leaves alone.)
C4_ParsesNumberUnitName ==
    ( /\ pOut # Nothing
      /\ pShape[1].amount \in {"2", "10", "1.5"}
      /\ pShape[1].unit # ""
      /\ Len(pShape[1].name) >= 2 )
    => pOut[1] = [ amount |-> pShape[1].amount,
                   unit   |-> toLowerCase(pShape[1].unit),
                   name   |-> pShape[1].name ]

-----------------------------------------------------------------------------
(* Specification SpecCons: consolidateIngredients, one turn of the inner    *)
(* forEach per step.  cLog holds the (recipe title, ingredient text) pairs   *)
(* in the order recipes.forEach / recipe.ingredients.forEach visits them.   *)

MaxLines == 3

ConsTitles == {"A", "B"}
ConsTexts  == { "1 cup flour", "2 cups flour", "100 g flour", "1/2 cup milk",
                "2 Eggs", "constructor", "oats" }

InitCons ==
    /\ cLog = <<>>
    /\ ingredients = <<>>
    /\ cStatus = "running"
    /\ IdleParse /\ IdleCat /\ IdleLay /\ IdleMac /\ IdlePdf /\ IdleChain /\ IdleSec /\ IdleTwo

ConsolidateLine ==
    /\ cStatus = "running"
    /\ Len(cLog) < MaxLines
    /\ \E title \in ConsTitles, ingredientText \in ConsTexts :
          /\ cLog' = Append(cLog, [recipe |-> title, text |-> ingredientText])
          /\ IF LineThrows(ingredients, ingredientText)
             THEN cStatus' = "threw" /\ UNCHANGED ingredients
             ELSE /\ ingredients' = AddLine(ingredients, title, ingredientText)
                  /\ UNCHANGED cStatus
    /\ UNCHANGED <<parseVars, catVars, layVars, macVars, pdfVars, chainVars, secVars, twoVars>>

ConsolidateReturn ==
    /\ cStatus = "running"
    /\ cStatus' = "done"
    /\ UNCHANGED <<cLog, ingredients, parseVars, catVars, layVars, macVars, pdfVars, chainVars, secVars, twoVars>>

NextCons == ConsolidateLine \/ ConsolidateReturn

SpecCons == InitCons /\ [][NextCons]_vars

\* what the claims read off the log -------------------------------------

\* parseIngredient and the normalized name of every line of the vocabulary
ParsedLine == [ t \in ConsTexts |-> parseIngredient(t) ]
NormalizedLine == [ t \in ConsTexts |-> normalizeIngredientName(ParsedLine[t].name) ]

NameOfLine(entry) == NormalizedLine[entry.text]

\* the entries of log whose line has the normalized name key, in order
RECURSIVE LinesOf(_, _)
LinesOf(log, key) ==
    IF log = <<>> THEN <<>>
    ELSE LET rest == LinesOf(SubSeq(log, 1, Len(log) - 1), key)
             last == log[Len(log)]
         IN  IF NameOfLine(last) = key THEN Append(rest, last) ELSE rest

\* the value of a leading amount in hundredths, a simple fraction a/b counted
\* as a divided by b
AmountValue(amount) ==
    LET e    == NumberEnd(amount, 1)
        full == AmountEnd(amount, 1)
        k    == SkipSpaces(amount, SkipSpaces(amount, e) + 1)
        den  == DecimalValue(SubSeq(amount, k, full - 1))
    IN  IF full > e /\ den > 0 THEN parseFloat(amount) \div den ELSE parseFloat(amount)

\* the conversion-table factor of a unit in hundredths, 1 for no unit or an
\* unrecognised one
FactorOf(unit) == IF unit \in DOMAIN conversions THEN conversions[unit] ELSE Centi

Dimension(unit) ==
    IF unit \in Grams THEN "mass" ELSE IF unit \in Millilitres THEN "volume" ELSE "none"

\* sum over the entries of amount times factor, for the entries with a
\* numeric leading amount
RECURSIVE SumOf(_)
SumOf(entries) ==
    IF entries = <<>> THEN 0
    ELSE LET parsed == ParsedLine[entries[1].text]
         IN  (IF parsed.amount = "" THEN 0
              ELSE AmountValue(parsed.amount) * FactorOf(parsed.unit))
             + SumOf(Tail(entries))

RECURSIVE SelectDimension(_, _)
SelectDimension(entries, dim) ==
    IF entries = <<>> THEN <<>>
    ELSE LET parsed == ParsedLine[entries[1].text]
             rest   == SelectDimension(Tail(entries), dim)
         IN  IF parsed.amount # "" /\ Dimension(parsed.unit) = dim
             THEN <<entries[1]>> \o rest ELSE rest

TenThousandths(n) == n * Centi * Centi

\* C2: after consolidateIngredients, each group's totalAmount is the sum, over
\* the group's lines with a numeric leading amount, of amount times the
\* conversion factor of the line's unit (bare amount without a recognised
\* unit); '1 cup flour' of A and '2 cups flour' of B give one group 'flour'
\* with total 720 and two contributing recipes.
C2_TotalIsSumOfConvertedAmounts ==
    cStatus = "done" =>
        /\ \A key \in DOMAIN ingredients :
              ingredients[key].totalAmount = SumOf(LinesOf(cLog, key))
        /\ cLog = << [recipe |-> "A", text |-> "1 cup flour"],
                     [recipe |-> "B", text |-> "2 cups flour"] >>
           => /\ DOMAIN ingredients = {"flour"}
              /\ ingredients["flour"].totalAmount = TenThousandths(720)
              /\ ingredients["flour"].recipes = <<"A", "B">>

\* C3: a group's totalAmount only ever sums amounts of a single dimension
\* (mass, volume or unitless), that of the first line that contributed an
\* amount; a line of another dimension is not added to it.
C3_SingleDimensionPerTotal ==
    cStatus \in {"running", "done"} =>
        \A key \in DOMAIN ingredients :
            LET group == ingredients[key]
            IN  group.amounts # <<>> =>
                  group.totalAmount =
                      SumOf(SelectDimension(LinesOf(cLog, key),
                                            Dimension(group.amounts[1].unit)))

RECURSIVE TitlesOf(_)
TitlesOf(entries) ==
    IF entries = <<>> THEN <<>> ELSE <<entries[1].recipe>> \o TitlesOf(Tail(entries))

RECURSIVE TextsOf(_)
TextsOf(entries) ==
    IF entries = <<>> THEN <<>> ELSE <<entries[1].text>> \o TextsOf(Tail(entries))

RECURSIVE SumLen(_, _)
SumLen(groups, keys) ==
    IF keys = {} THEN 0
    ELSE LET k == CHOOSE x \in keys : TRUE
         IN  Len(groups[k].recipes) + SumLen(groups, keys \ {k})

\* C8: after consolidateIngredients there is exactly one group per distinct
\* normalized name among the lines, every line is counted in the group of its
\* own normalized name and in no other, and each group's recipes list holds
\* one title per contributing line (duplicates kept), so the recipes lists'
\* lengths sum to the number of lines.
C8_OneGroupPerNormalizedName ==
    cStatus = "done" =>
        /\ DOMAIN ingredients = { NameOfLine(cLog[i]) : i \in 1..Len(cLog) }
        /\ \A key \in DOMAIN ingredients :
              /\ ingredients[key].name = key
              /\ ingredients[key].originalTexts = TextsOf(LinesOf(cLog, key))
              /\ ingredients[key].recipes = TitlesOf(LinesOf(cLog, key))
        /\ SumLen(ingredients, DOMAIN ingredients) = Len(cLog)

\* a run over three lines with a name seen twice (two titles in one group) and
\* a second name
C8_Witness ==
    /\ cStatus = "done"
    /\ Len(cLog) = 3
    /\ Cardinality(DOMAIN ingredients) = 2
    /\ \E key \in DOMAIN ingredients : ingredients[key].recipes = <<"A", "B">>

-----------------------------------------------------------------------------
(* Specification SpecCat: categorizeIngredient applied to one name          *)

CatKeywords == { CategoryListing[k][1] : k \in 1..Len(CategoryListing) }

CatNames ==
    { prefix \o keyword \o suffix :
        prefix \in {"", "Red "}, keyword \in CatKeywords, suffix \in {"", "s"} }
    \cup { "water", "Tofu", "chicken broth", "Black Peppercorns", "candy",
           "orange juice", "egg", "peanut butter", "" }

InitCat ==
    /\ catName \in CatNames
    /\ catOut = None
    /\ IdleParse /\ IdleCons /\ IdleLay /\ IdleMac /\ IdlePdf /\ IdleChain /\ IdleSec /\ IdleTwo

CallCategorizeIngredient ==
    /\ catOut = None
    /\ catOut' = categorizeIngredient(catName)
    /\ UNCHANGED <<catName, parseVars, consVars, layVars, macVars, pdfVars, chainVars, secVars, twoVars>>

NextCat == CallCategorizeIngredient

SpecCat == InitCat /\ [][NextCat]_vars

\* C9: categorizeIngredient returns the category that the keyword table pairs
\* with the earliest-listed keyword that is a substring of the lowercased
\* name, each keyword taken with the category of its first listing in the
\* table ('pepper' is listed twice), and 'Other' exactly when no keyword is a
\* substring.
C9_FirstListedKeywordDecides ==
    catOut # None =>
        LET lowerName == toLowerCase(catName)
            hit(k)    == includes(lowerName, CategoryListing[k][1])
            rows      == { k \in 1..Len(CategoryListing) : hit(k) }
        IN  /\ (catOut = "Other") <=> (rows = {})
            /\ rows # {} =>
                 catOut = CategoryListing[CHOOSE k \in rows : \A j \in rows : k <= j][2]

-----------------------------------------------------------------------------
(* Specification SpecLay: organizeTextByLines, one fragment per step, then  *)
(* the two sorts and the conversion to text.                                *)

MaxItems == 3

Fragment(str, x, y) == [str |-> str, x |-> x, y |-> y]

Fragments ==
    { Fragment("Garlic", 10, 100), Fragment("Powder", 40, 100), Fragment("1", 10, 80),
      Fragment("2", 40, 97), Fragment("cups", 10, 104), Fragment("tsp", 10, 83),
      Fragment("", 40, 60) }

RECURSIVE SeqsUpTo(_, _)
SeqsUpTo(S, n) ==
    IF n = 0 THEN { <<>> }
    ELSE LET shorter == SeqsUpTo(S, n - 1)
         IN  shorter \cup { Append(q, e) : q \in shorter, e \in S }

InitLay ==
    /\ textItems \in SeqsUpTo(Fragments, MaxItems)
    /\ lines = <<>>
    /\ itemIdx = 0
    /\ lOut = Nothing
    /\ IdleParse /\ IdleCons /\ IdleCat /\ IdleMac /\ IdlePdf /\ IdleChain /\ IdleSec /\ IdleTwo

PlaceItem ==
    /\ lOut = Nothing
    /\ itemIdx < Len(textItems)
    /\ itemIdx' = itemIdx + 1
    /\ lines' = PlaceItemIn(lines, textItems[itemIdx + 1])
    /\ UNCHANGED <<textItems, lOut, parseVars, consVars, catVars, macVars, pdfVars, chainVars, secVars, twoVars>>

SortAndJoin ==
    /\ lOut = Nothing
    /\ itemIdx = Len(textItems)
    /\ lines' = SortedLines(lines)
    /\ lOut' = Some(LineTexts(SortedLines(lines)))
    /\ UNCHANGED <<textItems, itemIdx, parseVars, consVars, catVars, macVars, pdfVars, chainVars, secVars, twoVars>>

NextLay == PlaceItem \/ SortAndJoin

SpecLay == InitLay /\ [][NextLay]_vars

GarlicPowderExample ==
    << Fragment("Garlic", 10, 100), Fragment("Powder", 40, 100), Fragment("1", 10, 80) >>

\* C7: organizeTextByLines returns its lines in strictly descending order of
\* the lines' representative y, and inside each line the fragment texts
\* appear in non-decreasing x; the fragments ('Garlic',10,100),
\* ('Powder',40,100), ('1',10,80) give exactly 'Garlic Powder' then '1'.
C7_LinesTopDownItemsLeftRight ==
    lOut # Nothing =>
        /\ \A i, j \in 1..Len(lines) : i < j => lines[i].y > lines[j].y
        /\ \A k \in 1..Len(lines) :
              \A i, j \in 1..Len(lines[k].items) :
                  i < j => lines[k].items[i].x <= lines[k].items[j].x
        /\ lOut[1] = NonEmpty([ k \in 1..Len(lines) |-> trim(JoinTexts(lines[k].items)) ])
        /\ textItems = GarlicPowderExample => lOut[1] = << "Garlic Powder", "1" >>

\* the fragments of the example handed over bottom line first and right
\* fragment first: both sorts have to move something
C7_Witness ==
    /\ textItems = << Fragment("1", 10, 80), Fragment("Powder", 40, 100),
                      Fragment("Garlic", 10, 100) >>
    /\ lOut = Some(<< "Garlic Powder", "1" >>)

-----------------------------------------------------------------------------
(* Specification SpecMac: extractMacros applied to one page text            *)

MacroPrefixes == { "", "Protein 31g ", "Calories: 200 ", "250 calories ", "1",
                   "Serves 4 ", "2.", "Chicken Salad " }
MacroPhrases  == { "Calories: 165", "165 calories", "" }
MacroSuffixes == { "", " 20", "0", ".5", " Fat 5g",
                   " per serving 7g protein 3 g carbs 2g fiber" }

MacroTexts ==
    { prefix \o phrase \o suffix :
        prefix \in MacroPrefixes, phrase \in MacroPhrases, suffix \in MacroSuffixes }

InitMac ==
    /\ mVariant \in Variants \cup {Older}
    /\ mText \in MacroTexts
    /\ mOut = Nothing
    /\ IdleParse /\ IdleCons /\ IdleCat /\ IdleLay /\ IdlePdf /\ IdleChain /\ IdleSec /\ IdleTwo

CallExtractMacros ==
    /\ mOut = Nothing
    /\ mOut' = Some(extractMacros(mText, mVariant))
    /\ UNCHANGED <<mVariant, mText, parseVars, consVars, catVars, layVars, pdfVars, chainVars, secVars, twoVars>>

NextMac == CallExtractMacros

SpecMac == InitMac /\ [][NextMac]_vars

Hundredths(n) == n * Centi

StoresCalories165 ==
    /\ "calories" \in DOMAIN mOut[1]
    /\ mOut[1]["calories"] = Hundredths(165)

\* C6 as stated: for any page text that contains 'Calories: 165' or
\* '165 calories', whatever precedes or follows it, extractMacros stores
\* calories = 165.
C6_AnyTextWithPhrase ==
    ( /\ mOut # Nothing
      /\ mVariant \in Variants
      /\ includes(mText, "Calories: 165") \/ includes(mText, "165 calories") )
    => StoresCalories165

\* the last position < i of s that holds no white space, 0 when there is none
RECURSIVE SkipSpacesBack(_, _)
SkipSpacesBack(s, i) ==
    IF i > 1 /\ IsSpace(At(s, i - 1)) THEN SkipSpacesBack(s, i - 1) ELSE i - 1

CalPositions(s) == { i \in 1..Len(s) : LitAtI(s, i, "cal") }

NumberChar(s, i) == i >= 1 /\ i <= Len(s) /\ (IsDigit(At(s, i)) \/ At(s, i) = ".")

\* 'Calories: 165' is the only place of the text with 'cal', nothing
\* continues its number and no number stands right before it
LabelPhraseAlone(s) ==
    \E p \in 1..Len(s) :
        /\ LitAt(s, p, "Calories: 165")
        /\ CalPositions(s) = {p}
        /\ ~NumberChar(s, p + 13)
        /\ ~NumberChar(s, SkipSpacesBack(s, p))

\* '165 calories' is the only place of the text with 'cal', nothing runs
\* into its number from the left and no number stands right after it
NumberPhraseAlone(s) ==
    \E p \in 1..Len(s) :
        /\ LitAt(s, p, "165 calories")
        /\ CalPositions(s) = {p + 4}
        /\ ~NumberChar(s, p - 1)
        /\ ~NumberChar(s, SkipColonsSpaces(s, p + 12))

\* C6 amended: the phrase decides the stored value when it is the only
\* calorie wording of the text and its number stands alone; then both copies
\* of the parser store calories = 165.
C6_PhraseAloneGives165 ==
    ( /\ mOut # Nothing
      /\ mVariant \in Variants
      /\ LabelPhraseAlone(mText) \/ NumberPhraseAlone(mText) )
    => StoresCalories165

\* a text with other nutrition figures before and after the phrase
C6_Witness ==
    /\ mOut # Nothing
    /\ mText = "Protein 31g 165 calories per serving 7g protein 3 g carbs 2g fiber"
    /\ NumberPhraseAlone(mText)
    /\ StoresCalories165
    /\ mOut[1]["protein"] = Hundredths(31)

-----------------------------------------------------------------------------
(* Specification SpecPdf: parsePDF over a document of a few pages            *)

MaxPages == 2

Items(strs) == [ k \in 1..Len(strs) |-> [ str |-> strs[k] ] ]

ContentsPage ==
    Items(<< "Table of",
       "Contents",
       " Soups 3  Salads 9",
       "Mains 15 Sweets" >>)

LemonChickenPage ==
    Items(<< "Lemon Chicken",
       "",
       "Calories: 165  Protein 31g",
       "Ingredients:\n",
       " 2 cups rice, 1 lb chicken ",
       "Directions:\n\t",
       "1. Cook the rice.",
       "2. Grill the chicken." >>)

IntroPage ==
    Items(<< "Quick weeknight dinners",
       "for busy families",
       " who love food " >>)

PlatterPage ==
    Items(<< "Mediterranean roasted vegetable platter with chickpeas, olives,",
       "feta, tomatoes, and warm flatbread wedges" >>)

OvenPage ==
    Items(<< "Bake the roasted vegetable platter with chickpeas, olives, feta,",
       "tomatoes, and warm flatbread for ten minutes" >>)

ShoppingPage ==
    Items(<< "2 cups rice 1 lb chicken 3 tbsp oil 1 tsp salt",
       "2 cloves garlic 1 cup peas 4 oz feta",
       "1 tbsp lemon zest 2 tsp thyme" >>)

NutritionPage ==
    Items(<< "1 serving has calories 165 protein 31 carbs 4",
       "fat 3 and fiber 2 so it fits",
       "most plans and diets" >>)

PancakePage ==
    Items(<< "Ingredients: 2 cups flour, 1 cup milk",
       "Method: whisk until smooth" >>)

Pages == { ContentsPage, LemonChickenPage, IntroPage,
           PlatterPage, OvenPage, ShoppingPage, NutritionPage, PancakePage }

Docs == UNION { [ 1..n -> Pages ] : n \in 1..MaxPages }

InitPdf ==
    /\ doc \in Docs
    /\ pageNum = 0
    /\ recipes = << >>
    /\ pdfStatus = "loading"
    /\ pageLog = << >>
    /\ uuids = 0
    /\ fetched = Nothing
    /\ delivered = Nothing
    /\ IdleParse /\ IdleCons /\ IdleCat /\ IdleLay /\ IdleMac /\ IdleChain /\ IdleSec /\ IdleTwo

Others == << parseVars, consVars, catVars, layVars, macVars, chainVars, secVars, twoVars >>

\* error.message of what getDocument, getPage or getTextContent rejects with
LoadCauses == { "Invalid PDF structure" }
PageCauses == { "Invalid page request" }

\* return recipes: the promise of parsePDF resolves with the list
Resolved(list) == [ ok |-> TRUE, value |-> list ]

\* a catch that hands back the records collected so far
Catch_Partial(collected, cause) == Resolved(collected)

\* catch (error) { throw new Error(`Failed to parse PDF: ${error.message}`) }:
\* the promise rejects, the list collected so far is not part of it
Catch(collected, cause) == [ ok |-> FALSE, message |-> "Failed to parse PDF: " \o cause ]

\* a threshold that lets a text of exactly 50 characters through
LongEnough_FromFifty(pageText) == Len(pageText) >= 50

\* if (pageText.length > 50)
LongEnough(pageText) == Len(pageText) > 50

\* a loop that does not move on to the next page
NextPageNumber_Stay(n) == n

\* pageNum++
NextPageNumber(n) == n + 1

\* pdfjsLib.getDocument(...).promise resolves: the loop starts at page 1
DocumentLoads ==
    /\ pdfStatus = "loading"
    /\ pdfStatus' = "pages"
    /\ pageNum' = 1
    /\ UNCHANGED << doc, recipes, pageLog, uuids, fetched, delivered, Others >>

\* it rejects: the catch of parsePDF throws 'Failed to parse PDF: ...'
DocumentFails ==
    /\ pdfStatus = "loading"
    /\ pdfStatus' = "failed"
    /\ \E cause \in LoadCauses : delivered' = Some(Catch(<< >>, cause))
    /\ UNCHANGED << doc, pageNum, recipes, pageLog, uuids, fetched, Others >>

\* await pdf.getPage(pageNum), await page.getTextContent() resolve
FetchPage ==
    /\ pdfStatus = "pages"
    /\ pageNum <= Len(doc)
    /\ fetched = Nothing
    /\ fetched' = Some(doc[pageNum])
    /\ UNCHANGED << doc, pageNum, recipes, pdfStatus, pageLog, uuids, delivered, Others >>

\* the rest of the loop's turn once the text content is there
ProcessPage ==
    /\ pdfStatus = "pages"
    /\ fetched # Nothing
    /\ \E pageText \in { PageText(fetched[1]) } :
          IF LongEnough(pageText)
          THEN \E threw \in BOOLEAN :
                  \E recipe \in { parseRecipe(pageText, pageNum, uuids + 1, threw) } :
                      /\ recipes' = IF recipe # Nothing /\ ~NoTitle(recipe[1])
                                    THEN Append(recipes, recipe[1])
                                    ELSE recipes
                      /\ pageLog' = Append(pageLog,
                                       IF threw THEN "threw"
                                       ELSE IF recipe = Nothing THEN "discarded"
                                       ELSE "parsed")
                      /\ uuids' = uuids + 1
          ELSE /\ recipes' = recipes
               /\ pageLog' = Append(pageLog, "skipped")
               /\ uuids' = uuids
    /\ pageNum' = NextPageNumber(pageNum)
    /\ fetched' = Nothing
    /\ UNCHANGED << doc, pdfStatus, delivered, Others >>

\* getPage or getTextContent rejects: the catch of parsePDF throws and the
\* records collected so far are lost
PageFails ==
    /\ pdfStatus = "pages"
    /\ pageNum <= Len(doc)
    /\ fetched = Nothing
    /\ pdfStatus' = "failed"
    /\ pageLog' = Append(pageLog, "unreadable")
    /\ \E cause \in PageCauses : delivered' = Some(Catch(recipes, cause))
    /\ UNCHANGED << doc, pageNum, recipes, uuids, fetched, Others >>

\* return recipes
ReturnRecipes ==
    /\ pdfStatus = "pages"
    /\ pageNum > Len(doc)
    /\ pdfStatus' = "returned"
    /\ delivered' = Some(Resolved(recipes))
    /\ UNCHANGED << doc, pageNum, recipes, pageLog, uuids, fetched, Others >>

NextPdf ==
    \/ DocumentLoads
    \/ DocumentFails
    \/ FetchPage
    \/ ProcessPage
    \/ PageFails
    \/ ReturnRecipes

SpecPdf == InitPdf /\ [][NextPdf]_vars

-----------------------------------------------------------------------------
(* What the extractors return for each page of the documents                 *)

TextOf        == [ p \in Pages |-> PageText(p) ]
TitleFound    == [ p \in Pages |-> extractTitle(TextOf[p]) ]
ChainFound    == [ p \in Pages |-> extractIngredients(TextOf[p]) ]
AlternativeFound == [ p \in Pages |-> extractIngredientsAlternative(TextOf[p]) ]

\* parseRecipe was called for page k and none of its extractors threw
Completed(k) == pageLog[k] \in {"parsed", "discarded"}

RecordsOf(k) == { i \in 1..Len(recipes) : recipes[i].pageNumber = k }
HasRecord(k) == RecordsOf(k) # {}
RecordOf(k)  == recipes[CHOOSE i \in RecordsOf(k) : TRUE]

PageTitle(n) == "Recipe from Page " \o ToString(n)

\* C1: for every page whose extractors returned, parseRecipe returns no
\* record exactly when extractTitle found no title and the strategy chain of
\* extractIngredients returned no ingredients; every record of parsePDF's
\* list has a non-empty title, the extractor's or, when it found none,
\* 'Recipe from Page n' with n the page number.
C1_RecordIffTitleOrIngredients ==
    /\ \A k \in 1..Len(pageLog) :
          Completed(k) =>
             /\ (pageLog[k] = "discarded")
                   <=> (TitleFound[doc[k]] = None /\ ChainFound[doc[k]] = << >>)
             /\ HasRecord(k) <=> (pageLog[k] = "parsed")
    /\ \A i \in 1..Len(recipes) :
          LET n == recipes[i].pageNumber
          IN  /\ recipes[i].title # ""
              /\ recipes[i].title # None
              /\ recipes[i].title = IF TitleFound[doc[n]] = None
                                    THEN PageTitle(n)
                                    ELSE TitleFound[doc[n]]

\* a page without title and ingredients was dropped and the next one, with
\* ingredients but no title, is returned under the page's name
C1_Witness ==
    /\ pdfStatus = "returned"
    /\ doc = << NutritionPage, PancakePage >>
    /\ pageLog = << "discarded", "parsed" >>
    /\ Len(recipes) = 1
    /\ recipes[1].pageNumber = 2
    /\ recipes[1].title = "Recipe from Page 2"
    /\ recipes[1].ingredients = << "2 cups flour, 1 cup milk" >>

\* C5 as stated: a page is discarded only if the alternative pass also
\* returned nothing and no title was found, so a page without a title whose
\* alternative pass finds ingredients is emitted.
C5_DiscardOnlyIfAlternativeEmpty ==
    \A k \in 1..Len(pageLog) :
        Completed(k) =>
           /\ (pageLog[k] = "discarded")
                 => (AlternativeFound[doc[k]] = << >> /\ TitleFound[doc[k]] = None)
           /\ (TitleFound[doc[k]] = None /\ AlternativeFound[doc[k]] # << >>)
                 => HasRecord(k)

\* C5 amended: the discard decision is taken on the strategy chain's result,
\* before the alternative pass.  A page whose chain returned nothing is
\* discarded when no title was found, whatever the alternative pass would
\* find; when a title was found the page is emitted, with the ingredients of
\* the alternative pass if its text is longer than 100 characters and with
\* none otherwise.  A page whose chain returned ingredients keeps them.
C5_DiscardBeforeAlternative ==
    \A k \in 1..Len(pageLog) :
        Completed(k) =>
           IF ChainFound[doc[k]] # << >>
           THEN HasRecord(k) /\ RecordOf(k).ingredients = ChainFound[doc[k]]
           ELSE IF TitleFound[doc[k]] = None
           THEN ~HasRecord(k) /\ pageLog[k] = "discarded"
           ELSE /\ HasRecord(k)
                /\ RecordOf(k).ingredients =
                      IF Len(TextOf[doc[k]]) > 100 THEN AlternativeFound[doc[k]] ELSE << >>

\* a page without a title was discarded although the alternative pass finds
\* an ingredient line in it, and a titled page got its ingredients from that pass
C5_Witness ==
    /\ pdfStatus = "returned"
    /\ doc = << ShoppingPage, PlatterPage >>
    /\ TitleFound[ShoppingPage] = None
    /\ ChainFound[ShoppingPage] = << >>
    /\ AlternativeFound[ShoppingPage] # << >>
    /\ pageLog = << "discarded", "parsed" >>
    /\ ~HasRecord(1)
    /\ ChainFound[PlatterPage] = << >>
    /\ RecordOf(2).ingredients = AlternativeFound[PlatterPage]
    /\ RecordOf(2).ingredients # << >>

\* a page qualifies when its text is longer than 50 characters and it has a
\* title or ingredients
Qualifies(p) ==
    /\ Len(TextOf[p]) > 50
    /\ ~(TitleFound[p] = None /\ ChainFound[p] = << >>)

\* C10: when an extractor throws on page k, parsePDF has no record for page
\* k, goes on with page k + 1, never fails because of it, and what it returns
\* holds, in page order, a record for every other qualifying page.
C10_ThrowSkipsOnlyThatPage ==
    /\ \A k \in 1..Len(pageLog) : pageLog[k] = "threw" => ~HasRecord(k)
    /\ pdfStatus = "pages" => pageNum = Len(pageLog) + 1
    /\ pdfStatus = "failed" => (pageLog = << >> \/ pageLog[Len(pageLog)] = "unreadable")
    /\ pdfStatus = "returned" =>
          /\ Len(pageLog) = Len(doc)
          /\ \A k \in 1..Len(doc) :
                pageLog[k] # "threw" => (HasRecord(k) <=> Qualifies(doc[k]))
          /\ \A i, j \in 1..Len(recipes) :
                i < j => recipes[i].pageNumber < recipes[j].pageNumber

\* an extractor threw on page 1 and parsePDF returned the record of page 2
C10_Witness ==
    /\ pdfStatus = "returned"
    /\ doc = << LemonChickenPage, PancakePage >>
    /\ pageLog = << "threw", "parsed" >>
    /\ Len(recipes) = 1
    /\ recipes[1].pageNumber = 2

\* C11: when the document cannot be opened or the text of a page cannot be
\* fetched, the caller of parsePDF receives the one error 'Failed to parse
\* PDF: <cause>' and no list, also when earlier pages had produced records;
\* a list is delivered only after every page has been read.
C11_FailureDeliversErrorOnly ==
    /\ pdfStatus = "failed" =>
          /\ delivered # Nothing
          /\ ~delivered[1].ok
          /\ DOMAIN delivered[1] = { "ok", "message" }
          /\ \E cause \in LoadCauses \cup PageCauses :
                delivered[1].message = "Failed to parse PDF: " \o cause
    /\ (delivered # Nothing /\ delivered[1].ok) =>
          /\ pdfStatus = "returned"
          /\ Len(pageLog) = Len(doc)
          /\ \A k \in 1..Len(pageLog) : pageLog[k] # "unreadable"
          /\ delivered[1].value = recipes
    /\ pdfStatus \in {"loading", "pages"} => delivered = Nothing

\* page 1 gave a record, the text of page 2 could not be fetched: the caller
\* gets the error and nothing of page 1
C11_Witness ==
    /\ pdfStatus = "failed"
    /\ doc = << LemonChickenPage, PancakePage >>
    /\ pageLog = << "parsed", "unreadable" >>
    /\ Len(recipes) = 1
    /\ delivered = Some([ ok |-> FALSE,
                          message |-> "Failed to parse PDF: Invalid page request" ])

\* C13: parsePDF handles the pages strictly in page order: the text it holds
\* is that of the page after the last page processed, every earlier page has
\* been processed, and the list has strictly increasing page numbers with at
\* most one record per page.
C13_PagesInOrder ==
    /\ fetched # Nothing =>
          /\ pageNum \in 1..Len(doc)
          /\ fetched[1] = doc[pageNum]
          /\ Len(pageLog) = pageNum - 1
    /\ \A i \in 1..Len(recipes) :
          /\ recipes[i].pageNumber \in 1..Len(pageLog)
          /\ i > 1 => recipes[i - 1].pageNumber < recipes[i].pageNumber
    /\ \A k \in 1..Len(doc) : Cardinality(RecordsOf(k)) <= 1
    /\ delivered # Nothing /\ delivered[1].ok =>
          \A i \in 1..Len(delivered[1].value) :
              i > 1 => delivered[1].value[i - 1].pageNumber < delivered[1].value[i].pageNumber

\* two pages that both give a record: the list holds page 1, then page 2
C13_Witness ==
    /\ pdfStatus = "returned"
    /\ doc = << PancakePage, LemonChickenPage >>
    /\ pageLog = << "parsed", "parsed" >>
    /\ delivered # Nothing
    /\ Len(delivered[1].value) = 2
    /\ delivered[1].value[1].pageNumber = 1
    /\ delivered[1].value[2].pageNumber = 2

-----------------------------------------------------------------------------
(* Further claims on SpecCons                                               *)

HalfCupMilk == "1/2 cup milk"

\* C18: a line whose amount is the fraction a/b adds a/b times the unit factor
\* to its group: '1/2 cup milk' adds 120, and read twice gives 240.
C18_FractionCountsAsDecimal ==
    cStatus = "done" /\ cLog # <<>> /\ (\A i \in 1..Len(cLog) : cLog[i].text = HalfCupMilk)
        => /\ NormalizedLine[HalfCupMilk] \in DOMAIN ingredients
           /\ ingredients[NormalizedLine[HalfCupMilk]].totalAmount
                 = TenThousandths(120) * Len(cLog)

-----------------------------------------------------------------------------
(* Further claims on SpecParse                                              *)

\* C17: for a line '<amount> [of ]<name>[, <clause>]' with no unit token,
\* parseIngredient finds no unit and returns exactly <name> as name: no
\* leading letter of the ingredient word is removed ('2 garlic cloves',
\* '2 lemons', '2 large eggs').
C17_NoUnitKeepsLeadingLetters ==
    ( /\ pOut # Nothing
      /\ pShape[1].amount # ""
      /\ pShape[1].unit = "" )
    => /\ pOut[1].unit = ""
       /\ pOut[1].name = pShape[1].name

-----------------------------------------------------------------------------
(* Specification SpecChain: the strategy loop of extractIngredients and of  *)
(* extractDirections, one call of a strategy per step.  eOracle holds, per  *)
(* strategy in the order of the strategies array, what the strategy does    *)
(* when it is called on eText: the list it returns (<< >> also for null) or *)
(* an error it raises.  eResults records the strategies actually called.    *)

Returns(list) == [ threw |-> FALSE, value |-> list ]
Raises        == [ threw |-> TRUE,  value |-> << >> ]

\* const strategies = [ ... ] of extractIngredients in recipeParser.js
IngredientStrategies(text) ==
    << Returns(SectionIngredients(text)),
       Returns(extractIngredientsFallback(text)) >>

\* const strategies = [ ... ] of extractDirections in recipeParser.js
DirectionStrategies(text) ==
    << Returns(SectionDirections(text, 1)),
       Returns(DirectionsAfterIngredients(text)),
       Returns(extractDirectionsFallback(text)) >>

\* const strategies = [ ... ] of extractIngredients in the cookbook copy:
\* section-based, extractIngredientsFromCookbookFormat, extractIngredientsFallback.
\* What each of them finds is an input here.
CookbookStrategyCount == 3
CookbookFinds == { << >>, << "2 cups flour" >>, << "200g chicken breast", "1 tbsp olive oil" >> }
CookbookStrategies == [ 1..CookbookStrategyCount -> { Returns(f) : f \in CookbookFinds } ]

ChainIngredientTexts ==
    { "Ingredients: 2 cups flour   1 cup milk",
      "Ingredients\nFor the base\n2 cups flour\n1 cup milk",
      "Ingredients Method\n2 cups flour\n1 cup milk",
      "Ingredients\n--\n2 cups flour",
      "Ingredients: 2 cups flour\nDirections: Mix",
      "Ingredients: 1.5 cups milk",
      "Ingredients:\n- 2 cups flour\n1. 3 eggs",
      "A quiet morning walk" }

ChainDirectionTexts ==
    { "Directions: 3. Mix the flour and milk well 7. Bake for twenty minutes",
      "Preparation time\nIngredients: 2 cups flour\nDirections: Mix the flour and milk well",
      "Method\nMix well\nBake it",
      "Method\n1. Mix well\n2. Bake it for twenty five minutes now\n3. Serve",
      "Instructions: Whisk the eggs with sugar\n\nFold in the flour\n\nProtein: 12",
      "Directions: 1.2. Whisk the eggs 10. Fold in the sifted flour",
      "A quiet morning walk" }

\* the strategies with the one at position fault raising an error (none for 0)
WithFault(strategies, fault) ==
    [ k \in 1..Len(strategies) |-> IF k = fault THEN Raises ELSE strategies[k] ]

Chain(fn, variant) == [ fn |-> fn, variant |-> variant ]

InitChain ==
    /\ \/ /\ eChain = Chain("extractIngredients", Live)
          /\ eText \in ChainIngredientTexts
          /\ \E fault \in 0..2 : eOracle = WithFault(IngredientStrategies(eText), fault)
       \/ /\ eChain = Chain("extractDirections", Live)
          /\ eText \in ChainDirectionTexts
          /\ \E fault \in 0..3 : eOracle = WithFault(DirectionStrategies(eText), fault)
       \/ /\ eChain = Chain("extractIngredients", Cookbook)
          /\ eText = ""
          /\ \E fault \in 0..CookbookStrategyCount, strategies \in CookbookStrategies :
                eOracle = WithFault(strategies, fault)
    /\ eResults = << >>
    /\ eStatus = "running"
    /\ eOut = Nothing
    /\ IdleParse /\ IdleCons /\ IdleCat /\ IdleLay /\ IdleMac /\ IdlePdf /\ IdleSec /\ IdleTwo

\* a loop that goes on after a strategy has found something
Found_Never(result) == FALSE

\* if (result && result.length > 0)
Found(result) == Len(result) > 0

\* for (const strategy of strategies) { const result = strategy(); ... }: one
\* turn.  An error raised by the strategy leaves the loop and the function.
CallStrategy ==
    /\ eStatus = "running"
    /\ Len(eResults) < Len(eOracle)
    /\ \E outcome \in { eOracle[Len(eResults) + 1] } :
          /\ eResults' = Append(eResults, outcome)
          /\ IF outcome.threw
             THEN eStatus' = "threw" /\ UNCHANGED eOut
             ELSE IF Found(outcome.value)
             THEN eStatus' = "returned" /\ eOut' = Some(outcome.value)
             ELSE UNCHANGED <<eStatus, eOut>>
    /\ UNCHANGED <<eChain, eText, eOracle, parseVars, consVars, catVars, layVars, macVars, pdfVars, secVars, twoVars>>

\* return [] after the loop
ReturnNothingFound ==
    /\ eStatus = "running"
    /\ Len(eResults) = Len(eOracle)
    /\ eStatus' = "returned"
    /\ eOut' = Some(<< >>)
    /\ UNCHANGED <<eChain, eText, eOracle, eResults, parseVars, consVars, catVars, layVars, macVars, pdfVars, secVars, twoVars>>

NextChain == CallStrategy \/ ReturnNothingFound

SpecChain == InitChain /\ [][NextChain]_vars

\* the i-th element of list begins with 'i. ', for every i
NumberedFromOne(list) ==
    \A i \in 1..Len(list) : LitAt(list[i], 1, ToString(i) \o ". ")

\* C14: the list extractDirections returns, and the list of every one of its
\* strategies, has its i-th element beginning with 'i. ', whatever step
\* numbers the text carried.
C14_StepsNumberedFromOne ==
    eStatus # "idle" /\ eChain.fn = "extractDirections" =>
        /\ \A k \in 1..Len(eOracle) : NumberedFromOne(eOracle[k].value)
        /\ eStatus = "returned" => NumberedFromOne(eOut[1])

\* a text whose steps carry the numbers 3 and 7 comes back numbered 1 and 2
C14_Witness ==
    /\ eChain = Chain("extractDirections", Live)
    /\ eText = "Directions: 3. Mix the flour and milk well 7. Bake for twenty minutes"
    /\ eStatus = "returned"
    /\ eOut = Some(<< "1. Mix the flour and milk well", "2. Bake for twenty minutes" >>)

\* the strategies called so far are the first ones of the array, in its
\* order, and every one before the last called one returned nothing
CalledInOrder ==
    /\ Len(eResults) <= Len(eOracle)
    /\ \A k \in 1..Len(eResults) : eResults[k] = eOracle[k]
    /\ \A k \in 1..(Len(eResults) - 1) : ~eResults[k].threw /\ eResults[k].value = << >>

\* the value returned is that of the last strategy called if it is non-empty;
\* it is empty only if every strategy was called and returned nothing
FirstNonEmptyReturned ==
    eStatus = "returned" =>
        /\ eOut # Nothing
        /\ IF eOut[1] # << >>
           THEN eResults # << >> /\ eResults[Len(eResults)].value = eOut[1]
           ELSE /\ Len(eResults) = Len(eOracle)
                /\ \A k \in 1..Len(eOracle) : ~eOracle[k].threw /\ eOracle[k].value = << >>

-----------------------------------------------------------------------------
(* Further claims on SpecMac                                                *)

\* the wordings a macro's patterns look for, by their common stems
MacroStems ==
    [ calories |-> << "cal" >>,
      protein  |-> << "prot" >>,
      carbs    |-> << "carb", "cho" >>,
      fat      |-> << "fat", "lipid" >>,
      fiber    |-> << "fiber", "fibre" >> ]

Mentions(text, macro) ==
    \E k \in 1..Len(MacroStems[macro]) : includesI(text, MacroStems[macro][k])

HasDigit(text) == \E i \in 1..Len(text) : IsDigit(At(text, i))

\* one of the macro's patterns matches the text
PatternMatched(text, variant, macro) ==
    \E k \in 1..Len(macroPatterns(variant)[macro]) :
        match(text, macroPatterns(variant)[macro][k]) # None

\* C15: the map extractMacros returns has a key for a macro only if one of the
\* macro's patterns matched the text (so the text names the macro and holds a
\* number); a macro that was not found has no key, with no 0 or other default
\* in its place, and every stored value is a number >= 0.
C15_KeyOnlyForMatchedMacro ==
    mOut # Nothing =>
        /\ DOMAIN mOut[1] \subseteq { MacroNames[k] : k \in 1..Len(MacroNames) }
        /\ \A k \in 1..Len(MacroNames) :
              LET macro == MacroNames[k]
              IN  /\ macro \in DOMAIN mOut[1] <=> PatternMatched(mText, mVariant, macro)
                  /\ macro \in DOMAIN mOut[1] =>
                        /\ Mentions(mText, macro)
                        /\ HasDigit(mText)
                        /\ mOut[1][macro] # NaN
                        /\ mOut[1][macro] >= 0
        /\ ~HasDigit(mText) => DOMAIN mOut[1] = {}

\* the older copy finds the calories and, lacking the g after its number and
\* any figure for the rest, leaves every other macro out
C15_Witness ==
    /\ mOut # Nothing
    /\ mVariant = Older
    /\ mText = "Calories: 165 20"
    /\ DOMAIN mOut[1] = {"calories"}
    /\ mOut[1]["calories"] = Hundredths(165)

-----------------------------------------------------------------------------
(* Further claims on SpecPdf                                                *)

AllPagesShort == \A k \in 1..Len(doc) : Len(TextOf[doc[k]]) <= 50

\* C16: for a document whose pages all have a normalized text of at most 50
\* characters, parsePDF calls parseRecipe on no page, collects nothing and
\* returns the empty list; it fails only if the document or a page cannot be
\* read.
C16_ShortPagesGiveEmptyList ==
    pdfStatus # "idle" /\ AllPagesShort =>
        /\ uuids = 0
        /\ recipes = << >>
        /\ \A k \in 1..Len(pageLog) : pageLog[k] \in {"skipped", "unreadable"}
        /\ pdfStatus = "returned" => delivered = Some(Resolved(<< >>))
        /\ pdfStatus = "failed" =>
              pageLog = << >> \/ pageLog[Len(pageLog)] = "unreadable"

\* two pages of exactly 50 characters each
C16_Witness ==
    /\ pdfStatus = "returned"
    /\ doc = << ContentsPage, ContentsPage >>
    /\ Len(TextOf[ContentsPage]) = 50
    /\ pageLog = << "skipped", "skipped" >>
    /\ delivered = Some(Resolved(<< >>))

\* C20: a strategy that throws while page k is processed counts as a strategy
\* without result, and the page's record is still emitted when the other
\* extractors yield a title or ingredients (here: both a title and
\* ingredients of the section-bounded level).
C20_ThrowCountsAsNoResult ==
    \A k \in 1..Len(pageLog) :
        ( /\ pageLog[k] = "threw"
          /\ TitleFound[doc[k]] # None
          /\ ChainFound[doc[k]] # << >> )
        => HasRecord(k)

-----------------------------------------------------------------------------
(* Further claims on SpecLay                                                *)

RECURSIVE ItemCount(_)
ItemCount(ls) == IF ls = <<>> THEN 0 ELSE Len(ls[1].items) + ItemCount(Tail(ls))

EntryOf(item) == [text |-> item.str, x |-> item.x]

Holds(line, item) == \E j \in 1..Len(line.items) : line.items[j] = EntryOf(item)

\* C23: while and after organizeTextByLines groups the fragments, every
\* fragment placed is in exactly one line (the lines hold as many entries as
\* fragments were placed), it lies in a line whose representative y is within
\* the tolerance 5 of its own y, the representative y of a line is the y of
\* the first fragment placed in it, and the representative y values of any
\* two lines differ by more than 5.
C23_LinesPartitionByTolerance ==
    textItems # <<>> \/ lines # <<>> =>
        /\ ItemCount(lines) = itemIdx
        /\ \A i \in 1..itemIdx :
              \E k \in 1..Len(lines) :
                  /\ Abs(lines[k].y - textItems[i].y) <= 5
                  /\ Holds(lines[k], textItems[i])
        /\ lOut = Nothing =>
              \A k \in 1..Len(lines) :
                  \E i \in 1..itemIdx :
                      /\ textItems[i].y = lines[k].y
                      /\ lines[k].items[1] = EntryOf(textItems[i])
        /\ \A k \in 1..Len(lines) :
              \E i \in 1..itemIdx : textItems[i].y = lines[k].y
        /\ \A k, h \in 1..Len(lines) : k # h => Abs(lines[k].y - lines[h].y) > 5

\* y = 97, then 104 (seven away: a second line), then 100, which is within 5
\* of both and joins the first
C23_Witness ==
    /\ textItems = << Fragment("2", 40, 97), Fragment("cups", 10, 104),
                      Fragment("Garlic", 10, 100) >>
    /\ itemIdx = 3
    /\ lOut = Nothing
    /\ Len(lines) = 2
    /\ lines[1].y = 97
    /\ Len(lines[1].items) = 2
    /\ lines[2].y = 104

\* textItems.forEach(item => { ... }) from the lines ls on
RECURSIVE PlaceAll(_, _)
PlaceAll(ls, items) ==
    IF items = <<>> THEN ls ELSE PlaceAll(PlaceItemIn(ls, items[1]), Tail(items))

\* the whole function, as one value
organizeTextByLines(items) == LineTexts(SortedLines(PlaceAll(<<>>, items)))

DistinctPositions(items) ==
    \A i, j \in 1..Len(items) :
        i # j => << items[i].x, items[i].y >> # << items[j].x, items[j].y >>

\* the sequences that hold the fragments of items in another order
Reorderings(items) ==
    { [ i \in 1..Len(items) |-> items[f[i]] ] : f \in Permutations(1..Len(items)) }

\* C27: for fragments with pairwise distinct (x, y) positions,
\* organizeTextByLines returns the same lines whatever the order in which
\* the fragments are supplied.
C27_OrderOfFragmentsIrrelevant ==
    lOut # Nothing /\ DistinctPositions(textItems) =>
        \A reordered \in Reorderings(textItems) :
            organizeTextByLines(reordered) = lOut[1]

-----------------------------------------------------------------------------
(* Further claims on SpecMac (pattern priority)                             *)

\* the number-precedes-word pattern of a macro in the given copy
NumberFirstOf(variant, macro) ==
    LET patterns == macroPatterns(variant)[macro]
    IN  patterns[CHOOSE k \in 1..Len(patterns) : patterns[k].kind = "number"]

\* C21: in both copies of the parser, when the number-precedes-word pattern
\* of a macro matches the text, the value it captures is the one stored for
\* that macro, whatever label-precedes-number form the text also holds.
C21_NumberFirstHasPriority ==
    mOut # Nothing /\ mVariant \in Variants =>
        \A k \in 1..Len(MacroNames) :
            LET macro    == MacroNames[k]
                captured == match(mText, NumberFirstOf(mVariant, macro))
            IN  captured # None =>
                    /\ macro \in DOMAIN mOut[1]
                    /\ mOut[1][macro] = parseFloat(captured)

-----------------------------------------------------------------------------
(* Further claims on SpecCons (amount tuples, categories)                   *)

\* C24: every consolidated line, with or without a numeric amount, appends
\* one (amount, unit, recipe) tuple to its group's amounts, so a group's
\* amounts list has one entry per contributing line.
C24_OneAmountTuplePerLine ==
    cStatus \in {"running", "done"} =>
        \A key \in DOMAIN ingredients :
            Len(ingredients[key].amounts) = Len(LinesOf(cLog, key))

\* const category = this.categorizeIngredient(ingredient.name), for one group
CategoryOfGroup(group) == categorizeIngredient(group.name)

\* the category the table holds for a keyword
TableCategory(keyword) ==
    categoryMappings[CHOOSE k \in 1..Len(categoryMappings) : categoryMappings[k][1] = keyword][2]

TableKeywords == { categoryMappings[k][1] : k \in 1..Len(categoryMappings) }

\* C26: a line whose parsed name is exactly a keyword of the category table
\* ends up, after consolidateIngredients and categorizeIngredients, in the
\* category the table gives for that keyword and not in 'Other'.
C26_KeywordNameGetsItsCategory ==
    cStatus = "done" =>
        \A i \in 1..Len(cLog) :
            LET name == ParsedLine[cLog[i].text].name
            IN  name \in TableKeywords =>
                    /\ NameOfLine(cLog[i]) \in DOMAIN ingredients
                    /\ CategoryOfGroup(ingredients[NameOfLine(cLog[i])]) = TableCategory(name)
                    /\ CategoryOfGroup(ingredients[NameOfLine(cLog[i])]) # "Other"

-----------------------------------------------------------------------------
(* ShoppingListGenerator.formatShoppingList and formatAmount                *)

\* a number held in hundredths, written as JavaScript writes it: no decimal
\* point for a whole number, no trailing zero
NumberToString(h) ==
    LET whole == ToString(h \div Centi)
        frac  == h % Centi
    IN  IF frac = 0 THEN whole
        ELSE IF frac % 10 = 0 THEN whole \o "." \o ToString(frac \div 10)
        ELSE whole \o "." \o ToString(frac \div 10) \o ToString(frac % 10)

\* Math.round of a value held in ten-thousandths, to hundredths of the unit
RoundToHundredths(t) == (t + 50) \div Centi

\* formatAmount(amount, unit) for a unit that is not empty:
\* `${Math.round(amount * 100) / 100} ${unit}`
formatAmount(amount, unit) == NumberToString(RoundToHundredths(amount)) \o " " \o unit

\* the callback of items.map in formatShoppingList
FormatItem(item) ==
    item.displayName
    \o (IF item.totalAmount > 0 /\ item.unit # ""
        THEN " (" \o formatAmount(item.totalAmount, item.unit) \o ")" ELSE "")
    \o (IF Len(item.recipes) > 1
        THEN " [" \o ToString(Len(item.recipes)) \o " recipes]" ELSE "")

\* C28: a group's unit and displayName are those of the line that created the
\* group, whatever later lines were added to it, and the formatted entry
\* labels the total with that first unit: '1 cup flour' then '100 g flour'
\* give 'flour (340 cup) [2 recipes]'.
C28_UnitAndDisplayNameOfFirstLine ==
    cStatus \in {"running", "done"} =>
        /\ \A key \in DOMAIN ingredients :
              LET first == ParsedLine[LinesOf(cLog, key)[1].text]
              IN  /\ ingredients[key].unit = first.unit
                  /\ ingredients[key].displayName = first.name
                  /\ ingredients[key].totalAmount > 0 /\ first.unit # "" =>
                        \E q \in 1..Len(FormatItem(ingredients[key])) :
                            LitAt(FormatItem(ingredients[key]), q, " " \o first.unit \o ")")
        /\ cLog = << [recipe |-> "A", text |-> "1 cup flour"],
                     [recipe |-> "B", text |-> "100 g flour"] >>
           => FormatItem(ingredients["flour"]) = "flour (340 cup) [2 recipes]"

\* a group created by a line in cups that then takes a line in grams
C28_Witness ==
    /\ cStatus = "done"
    /\ cLog = << [recipe |-> "A", text |-> "1 cup flour"],
                 [recipe |-> "B", text |-> "100 g flour"] >>
    /\ ingredients["flour"].unit = "cup"
    /\ Len(ingredients["flour"].amounts) = 2
    /\ FormatItem(ingredients["flour"]) = "flour (340 cup) [2 recipes]"

-----------------------------------------------------------------------------
(* Further claims on SpecChain (cleanIngredient)                            *)

\* C25: cleanIngredient removes a leading bullet or list number and leaves a
\* leading quantity alone: the line '1.5 cups milk' of a page is returned
\* unchanged by extractIngredients, and parseIngredient reads the amount 1.5
\* from it; '- 2 cups flour' and '1. 3 eggs' lose only their markers.
C25_LeadingQuantityUntouched ==
    ( /\ eStatus = "returned"
      /\ eChain.fn = "extractIngredients"
      /\ eChain.variant = Live
      /\ eOracle = IngredientStrategies(eText) )
    => /\ eText = "Ingredients: 1.5 cups milk" =>
             /\ eOut[1] = << "1.5 cups milk" >>
             /\ parseIngredient(eOut[1][1]).amount = "1.5"
       /\ eText = "Ingredients:\n- 2 cups flour\n1. 3 eggs" =>
             \A i \in 1..Len(eOut[1]) : eOut[1][i] \in {"2 cups flour", "3 eggs"}

-----------------------------------------------------------------------------
(* Further claims on SpecPdf (page text)                                    *)

\* no newline, tab or carriage return, and no two white-space characters in a row
WhitespaceNormalized(text) ==
    \A i \in 1..Len(text) :
        /\ At(text, i) \notin {"\n", "\r", "\t"}
        /\ ~(IsSpace(At(text, i)) /\ IsSpace(At(text, i + 1)))

\* what the two newline-splitting fallbacks return for the text of each page
FallbacksFound ==
    [ p \in Pages |-> << extractIngredientsFallback(TextOf[p]),
                         extractDirectionsFallback(TextOf[p]) >> ]

\* C29: the text parsePDF passes to parseRecipe for a page holds no newline
\* and no run of two or more white-space characters, the originalText of
\* every record included, and extractIngredientsFallback and
\* extractDirectionsFallback return the empty list for it.
C29_PageTextNormalized ==
    /\ \A k \in 1..Len(pageLog) :
          pageLog[k] \in {"parsed", "discarded", "threw"} =>
              /\ WhitespaceNormalized(TextOf[doc[k]])
              /\ FallbacksFound[doc[k]] = << << >>, << >> >>
    /\ \A i \in 1..Len(recipes) :
          /\ WhitespaceNormalized(recipes[i].originalText)
          /\ recipes[i].originalText = TextOf[doc[recipes[i].pageNumber]]

\* a page whose text layer holds a newline, a tab and double blanks between
\* its section headings and their contents
C29_Witness ==
    /\ pdfStatus = "returned"
    /\ doc = << LemonChickenPage >>
    /\ \E k \in 1..Len(LemonChickenPage) : includes(LemonChickenPage[k].str, "\n")
    /\ pageLog = << "parsed" >>
    /\ Len(recipes[1].ingredients) > 0
    /\ Len(recipes[1].directions) > 0
    /\ recipes[1].originalText = TextOf[LemonChickenPage]


-----------------------------------------------------------------------------
(* RecipeParser.parseIngredientSection of the cookbook copy                  *)

MeasurementUnits == {"cup", "tbsp", "tsp", "oz", "lb", "lbs", "packet", "packets"}

\* measurementPattern,
\* /(\d+g?\s*\([^)]+\)|^\d+g?\s|\d+\s*(?:cup|tbsp|tsp|oz|lb|lbs|packets?)\s)/gi,
\* tried at position i of s: the position after the match, 0 when none
measurementPattern(s, i) ==
    LET d      == SkipDigits(s, i)
        g      == IF LowerChar(At(s, d)) = "g" THEN d + 1 ELSE d
        open   == SkipSpaces(s, g)
        closes == { c \in (open + 1)..Len(s) : At(s, c) = ")" }
        u      == SkipSpaces(s, d)
        units  == { unit \in MeasurementUnits :
                      LitAtI(s, u, unit) /\ IsSpace(At(s, u + Len(unit))) }
    IN  IF d = i THEN 0
        ELSE IF At(s, open) = "(" /\ closes # {} /\ Min(closes) > open + 1
             THEN Min(closes) + 1
        ELSE IF i = 1 /\ IsSpace(At(s, g)) THEN g + 1
        ELSE IF units # {} THEN u + Len(CHOOSE unit \in units : TRUE) + 1
        ELSE 0

\* cleanContent.split(measurementPattern) from position p on: the pieces
\* between the matches, with the captured matches between them
RECURSIVE SplitAtMeasurements(_, _)
SplitAtMeasurements(s, p) ==
    LET starts == { j \in p..Len(s) : measurementPattern(s, j) > 0 }
        first  == Min(starts)
    IN  IF starts = {} THEN << SubSeq(s, p, Len(s)) >>
        ELSE << SubSeq(s, p, first - 1), SubSeq(s, first, measurementPattern(s, first) - 1) >>
             \o SplitAtMeasurements(s, measurementPattern(s, first))

\* .filter(p => p && p.trim())
NotBlank(part) == trim(part) # ""

\* measurementPattern.test(part) of a pattern with the g flag: the search
\* starts at lastIndex; the result is the new lastIndex, 0 when the test fails
test(part, lastIndex) ==
    LET starts == { j \in (lastIndex + 1)..Len(part) : measurementPattern(part, j) > 0 }
    IN  IF lastIndex > Len(part) \/ starts = {} THEN 0
        ELSE measurementPattern(part, Min(starts)) - 1

\* /\s+(?: words )[:]/i matched from position p of s
LabelAfterSpaces(s, p, words) ==
    /\ IsSpace(At(s, p))
    /\ \E w \in words : /\ LitAtI(s, SkipSpaces(s, p), w)
                        /\ At(s, SkipSpaces(s, p) + Len(w)) = ":"

\* s.split(/\s+(?: words )[:]/i)[0]
BeforeLabel(s, words) ==
    LET cuts == { p \in 1..Len(s) : LabelAfterSpaces(s, p, words) }
    IN  IF cuts = {} THEN s ELSE SubSeq(s, 1, Min(cuts) - 1)

\* /\s+(?:green|red|white|black)\s+(?=\w+:)/i matched from position p of s
ColourBeforeLabel(s, p) ==
    /\ IsSpace(At(s, p))
    /\ \E w \in {"green", "red", "white", "black"} :
          LET q == SkipSpaces(s, p)
              r == q + Len(w)
              t == SkipSpaces(s, r)
          IN  /\ LitAtI(s, q, w)
              /\ IsSpace(At(s, r))
              /\ SkipWordChars(s, t) > t
              /\ At(s, SkipWordChars(s, t)) = ":"

\* s.split(/\s+(?:green|red|white|black)\s+(?=\w+:)/i)[0]
BeforeColour(s) ==
    LET cuts == { p \in 1..Len(s) : ColourBeforeLabel(s, p) }
    IN  IF cuts = {} THEN s ELSE SubSeq(s, 1, Min(cuts) - 1)

\* s.replace(/\s+(chicken|sauce|garnish|rice|marinade|mix)\s*$/i, '')
WithoutTrailingSectionName(s) ==
    LET cuts == { p \in 1..Len(s) :
                    /\ IsSpace(At(s, p))
                    /\ \E w \in {"chicken", "sauce", "garnish", "rice", "marinade", "mix"} :
                          /\ LitAtI(s, SkipSpaces(s, p), w)
                          /\ SkipSpaces(s, SkipSpaces(s, p) + Len(w)) = Len(s) + 1 }
    IN  IF cuts = {} THEN s ELSE SubSeq(s, 1, Min(cuts) - 1)

\* the candidate of lines 426-427 and what lines 430-438 make of it
Candidate(part, nextPart) == trim(part \o " " \o nextPart)

CleanCandidate(ingredient) ==
    LET cut1 == BeforeLabel(ingredient, {"per", "makes", "calories", "protein", "carbs", "fat",
                                         "garnish", "rice", "sauce", "chicken", "marinade"})
        cut2 == BeforeColour(cut1)
        cut3 == BeforeLabel(cut2, {"pico", "mix", "cheesy"})
    IN  trim(StripSuffix(CollapseSpaces(cut3), ","))

\* lines 440-447: what the candidate adds to the ingredients
Accepted(cleaned) ==
    LET finalIngredient == trim(WithoutTrailingSectionName(cleaned))
    IN  IF Len(cleaned) > 3 /\ looksLikeIngredient(cleaned) /\ Len(finalIngredient) > 3
        THEN << finalIngredient >>
        ELSE << >>

-----------------------------------------------------------------------------
(* Specification SpecSec: parseIngredientSection applied to one subsection  *)

MaxPairs == 3

MeasurementTokens == { "200g (7oz) ", "150g (5oz) ", "1 tbsp " }
DescriptiveTokens == { "chicken breast ", "olive oil, ", "white rice  Sauce: " }

SectionShapes ==
    UNION { [ 1..k -> MeasurementTokens \X DescriptiveTokens ] : k \in 1..MaxPairs }

RECURSIVE ContentOf(_)
ContentOf(shape) ==
    IF shape = << >> THEN ""
    ELSE shape[1][1] \o shape[1][2] \o ContentOf(Tail(shape))

InitSec ==
    /\ sShape \in SectionShapes
    /\ sContent = ContentOf(sShape)
    /\ sParts = << >>
    /\ sIdx = 0
    /\ sLastIndex = 0
    /\ sTests = << >>
    /\ sCandidates = << >>
    /\ sIngredients = << >>
    /\ sStatus = "called"
    /\ IdleParse /\ IdleCons /\ IdleCat /\ IdleLay /\ IdleMac /\ IdlePdf /\ IdleChain /\ IdleTwo

SecRest == << parseVars, consVars, catVars, layVars, macVars, pdfVars, chainVars, twoVars >>

\* lines 413-420: trim, split on the measurements, drop the blank parts
SplitContent ==
    /\ sStatus = "called"
    /\ sParts' = SelectSeq(SplitAtMeasurements(trim(sContent), 1), NotBlank)
    /\ sIdx' = 1
    /\ sStatus' = "looping"
    /\ UNCHANGED << sShape, sContent, sLastIndex, sTests, sCandidates, sIngredients, SecRest >>

\* lines 422-450: one turn of the loop
ExaminePart ==
    /\ sStatus = "looping"
    /\ sIdx <= Len(sParts)
    /\ \E part \in { trim(sParts[sIdx]) } :
       \E found \in { test(part, sLastIndex) } :
          /\ sLastIndex' = found
          /\ sTests' = Append(sTests, [ part |-> part, taken |-> found > 0 ])
          /\ IF found > 0 /\ sIdx + 1 <= Len(sParts)
             THEN \E ingredient \in { Candidate(part, trim(sParts[sIdx + 1])) } :
                     /\ sCandidates' = Append(sCandidates, ingredient)
                     /\ sIngredients' = sIngredients \o Accepted(CleanCandidate(ingredient))
                     /\ sIdx' = sIdx + 2
             ELSE /\ UNCHANGED << sCandidates, sIngredients >>
                  /\ sIdx' = sIdx + 1
    /\ UNCHANGED << sShape, sContent, sParts, sStatus, SecRest >>

\* line 452
ReturnIngredients ==
    /\ sStatus = "looping"
    /\ sIdx > Len(sParts)
    /\ sStatus' = "returned"
    /\ UNCHANGED << sShape, sContent, sParts, sIdx, sLastIndex, sTests, sCandidates,
                    sIngredients, SecRest >>

NextSec == SplitContent \/ ExaminePart \/ ReturnIngredients

SpecSec == InitSec /\ [][NextSec]_vars

\* the candidates a subsection written from the pairs of shape should give
PairedCandidates(shape) ==
    [ j \in 1..Len(shape) |-> trim(shape[j][1]) \o " " \o trim(shape[j][2]) ]

\* C22: from a subsection of k measurement tokens, each followed by a
\* descriptive token, parseIngredientSection forms k candidates, the j-th
\* joining the j-th measurement token with the token after it, and each test
\* of a token gives what the test of that token alone gives
C22_OneCandidatePerMeasurement ==
    /\ sStatus = "returned" => sCandidates = PairedCandidates(sShape)
    /\ \A k \in 1..Len(sTests) : sTests[k].taken = (test(sTests[k].part, 0) > 0)

-----------------------------------------------------------------------------
(* Specification SpecTwo: two parsePDF calls on the one RecipeParser that    *)
(* app.js creates, interleaved at their awaits                               *)

MaxCallPages == 2

Calls == {1, 2}

CallPages == { LemonChickenPage, ContentsPage }

\* what a call is given: the pages of its document, whether the document
\* loads, and the number of the page whose getPage rejects (0: none does)
CallInputs ==
    UNION { { [ pages |-> pages, loads |-> loads, unreadable |-> unreadable ] :
                pages \in [ 1..n -> CallPages ],
                loads \in BOOLEAN,
                unreadable \in 0..n } : n \in 1..MaxCallPages }

\* a list that all calls keep on the parser instance
LocalRecipes_OnInstance(call) == 1

\* const recipes = []: every call of parsePDF binds a list of its own
LocalRecipes(call) == call

\* this.parseRecipe(pageText, pageNum) for the pages of the calls
RecipeAt ==
    [ page \in CallPages, n \in 1..MaxCallPages |-> parseRecipe(TextOf[page], n, 0, FALSE) ]

\* lines 48-53: the record that a turn of the loop pushes, if any
Pushed(pageText, recipe, id) ==
    IF LongEnough(pageText) /\ recipe # Nothing /\ ~NoTitle(recipe[1])
    THEN << [ recipe[1] EXCEPT !.id = id ] >>
    ELSE << >>

RECURSIVE ConcatAll(_)
ConcatAll(seqs) == IF seqs = << >> THEN << >> ELSE seqs[1] \o ConcatAll(Tail(seqs))

\* how a call ends that has collected the records of all the pages it
\* could read
Ending(input, collected) ==
    IF input.unreadable # 0
    THEN { Catch(collected, cause) : cause \in PageCauses }
    ELSE { Resolved(collected) }

\* what parsePDF delivers for input when no other call runs: the records
\* pushed for its pages in order, up to the page that cannot be read;
\* parsed[k] is what parseRecipe returns for page k
Alone(input, parsed) ==
    IF ~input.loads THEN { Catch(<< >>, cause) : cause \in LoadCauses }
    ELSE Ending(input,
            ConcatAll([ k \in 1..(IF input.unreadable = 0 THEN Len(input.pages)
                                                          ELSE input.unreadable - 1) |->
                          Pushed(TextOf[input.pages[k]], parsed[k], 0) ]))

InitTwo ==
    /\ tInput \in [ Calls -> CallInputs ]
    /\ \A c \in Calls : ~tInput[c].loads => tInput[c].unreadable = 0
    /\ tCalls = [ c \in Calls |-> [ status |-> "loading", pageNum |-> 0,
                                     fetched |-> Nothing, delivered |-> Nothing ] ]
    /\ tRecipes = [ c \in Calls |-> << >> ]
    /\ tUuids = 0
    /\ tParsed = [ c \in Calls |->
                    [ k \in 1..Len(tInput[c].pages) |-> RecipeAt[tInput[c].pages[k], k] ] ]
    /\ IdleParse /\ IdleCons /\ IdleCat /\ IdleLay /\ IdleMac /\ IdlePdf /\ IdleChain /\ IdleSec

TwoRest == << parseVars, consVars, catVars, layVars, macVars, pdfVars, chainVars, secVars >>

\* await loadingTask.promise resolves in call c: const recipes = [], pageNum = 1
CallLoads(c) ==
    /\ tCalls[c].status = "loading"
    /\ tInput[c].loads
    /\ tCalls' = [ tCalls EXCEPT ![c].status = "pages", ![c].pageNum = 1 ]
    /\ tRecipes' = [ tRecipes EXCEPT ![LocalRecipes(c)] = << >> ]
    /\ UNCHANGED << tInput, tParsed, tUuids, TwoRest >>

\* it rejects in call c
CallLoadFails(c) ==
    /\ tCalls[c].status = "loading"
    /\ ~tInput[c].loads
    /\ \E cause \in LoadCauses :
          tCalls' = [ tCalls EXCEPT ![c].status = "failed",
                                    ![c].delivered = Some(Catch(<< >>, cause)) ]
    /\ UNCHANGED << tInput, tParsed, tRecipes, tUuids, TwoRest >>

\* await pdf.getPage(pageNum), await page.getTextContent() resolve in call c
CallFetches(c) ==
    /\ tCalls[c].status = "pages"
    /\ tCalls[c].pageNum <= Len(tInput[c].pages)
    /\ tCalls[c].pageNum # tInput[c].unreadable
    /\ tCalls[c].fetched = Nothing
    /\ tCalls' = [ tCalls EXCEPT ![c].fetched = Some(tInput[c].pages[tCalls[c].pageNum]) ]
    /\ UNCHANGED << tInput, tParsed, tRecipes, tUuids, TwoRest >>

\* the rest of the loop's turn of call c, up to its next await
CallProcesses(c) ==
    /\ tCalls[c].status = "pages"
    /\ tCalls[c].fetched # Nothing
    /\ \E pageText \in { TextOf[tCalls[c].fetched[1]] } :
       \E recipe \in { tParsed[c][tCalls[c].pageNum] } :
          /\ tRecipes' = [ tRecipes EXCEPT ![LocalRecipes(c)] = @ \o Pushed(pageText, recipe, tUuids + 1) ]
          /\ tUuids' = IF LongEnough(pageText) THEN tUuids + 1 ELSE tUuids
    /\ tCalls' = [ tCalls EXCEPT ![c].pageNum = NextPageNumber(@), ![c].fetched = Nothing ]
    /\ UNCHANGED << tInput, tParsed, TwoRest >>

\* getPage rejects in call c: its catch throws
CallPageFails(c) ==
    /\ tCalls[c].status = "pages"
    /\ tCalls[c].pageNum <= Len(tInput[c].pages)
    /\ tCalls[c].pageNum = tInput[c].unreadable
    /\ tCalls[c].fetched = Nothing
    /\ \E cause \in PageCauses :
          tCalls' = [ tCalls EXCEPT ![c].status = "failed",
                                    ![c].delivered = Some(Catch(tRecipes[LocalRecipes(c)], cause)) ]
    /\ UNCHANGED << tInput, tParsed, tRecipes, tUuids, TwoRest >>

\* return recipes in call c
CallReturns(c) ==
    /\ tCalls[c].status = "pages"
    /\ tCalls[c].pageNum > Len(tInput[c].pages)
    /\ tCalls' = [ tCalls EXCEPT ![c].status = "returned",
                                 ![c].delivered = Some(Resolved(tRecipes[LocalRecipes(c)])) ]
    /\ UNCHANGED << tInput, tParsed, tRecipes, tUuids, TwoRest >>

NextTwo ==
    \E c \in Calls :
        \/ CallLoads(c)
        \/ CallLoadFails(c)
        \/ CallFetches(c)
        \/ CallProcesses(c)
        \/ CallPageFails(c)
        \/ CallReturns(c)

SpecTwo == InitTwo /\ [][NextTwo]_vars

\* a delivered value without the ids of its records
WithoutIds(result) ==
    IF result.ok
    THEN [ result EXCEPT !.value = [ k \in 1..Len(result.value) |-> [ result.value[k] EXCEPT !.id = 0 ] ] ]
    ELSE result

\* C30: whatever the interleaving of two parsePDF calls on the shared parser,
\* each call delivers, ids aside, what it delivers when run alone on its
\* document
C30_ConcurrentCallsAsAlone ==
    \A c \in Calls :
        (tInput # << >> /\ tCalls[c].delivered # Nothing)
            => WithoutIds(tCalls[c].delivered[1]) \in Alone(tInput[c], tParsed[c])

\* call 1 has returned records while call 2, on another document, is in its
\* loop with a record collected and a page awaiting its turn
C30_Witness ==
    /\ tInput # << >>
    /\ tInput[1].pages # tInput[2].pages
    /\ tCalls[1].status = "returned"
    /\ Len(tCalls[1].delivered[1].value) = 2
    /\ tCalls[2].status = "pages"
    /\ tCalls[2].fetched # Nothing
    /\ Len(tRecipes[LocalRecipes(2)]) = 1

=============================================================================
